---- MODULE Spec2Model ----
(***************************************************************************)
(* State-machine model of the adaptive decision-execution loop of the      *)
(* listing tool: GeminiLLMEngine (src/llm_engine.py), BrowserEngine        *)
(* (src/browser_engine.py) and the workflow around them (src/main.py).     *)
(*                                                                         *)
(* The specifications share the operators below:                           *)
(*   SpecGenerate  a sequence of GeminiLLMEngine._generate calls on one    *)
(*                 engine instance;                                        *)
(*   SpecExecute   one BrowserEngine._execute_action call on one action    *)
(*                 and one page;                                           *)
(*   Spec          BrowserEngine.execute_llm_actions, which calls          *)
(*                 analyze_screen_with_llm (and through it _generate) and  *)
(*                 _execute_action;                                        *)
(*   SpecFair      the same, when every call made returns;                 *)
(*   SpecInterpret GeminiLLMEngine.interpret_user_command on one command   *)
(*                 and one reply of the model;                             *)
(*   SpecParse     GeminiLLMEngine._fallback_command_parse on one command; *)
(*   SpecExtract   GeminiLLMEngine._extract_json_payload on one text, and  *)
(*                 again on its own result;                                *)
(*   SpecRun       main.run (src/main.py) from the start of the browser    *)
(*                 session on, with the platform calls of                  *)
(*                 src/platforms/common.py, each execute_llm_actions call  *)
(*                 taken as one step.                                      *)
(***************************************************************************)
EXTENDS Naturals, Integers, Sequences, FiniteSets, TLC

VARIABLES
    activeModelName,    \* GeminiLLMEngine._active_model_name
    model,              \* GeminiLLMEngine.model, named by the model_name it was built with
    calls,              \* number of _generate calls made so far (SpecGenerate)
    gen,                \* observation of the last _generate call
    action,             \* the action dict handed to _execute_action (SpecExecute)
    found,              \* what each locator strategy matches on the page (SpecExecute)
    exec,               \* observation of the last _execute_action call
    max_cycles,         \* execute_llm_actions: parameter max_cycles
    pc,                 \* execute_llm_actions: position in the function body
    cycle,              \* execute_llm_actions: loop variable cycle
    decision,           \* execute_llm_actions: local decision
    idx,                \* execute_llm_actions: position of `for action in actions`
    outcome,            \* how execute_llm_actions ended: "" while running
    events,             \* what the current cycle did so far, in order
    nSnapshots,         \* page.screenshot calls so far
    nDispatched,        \* _execute_action calls so far
    nActions,           \* sum of the lengths of the decisions' action lists so far
    cmd,                \* interpret_user_command, _fallback_command_parse: parameter command
    workflow,           \* the descriptor the last of these calls returned
    txt,                \* _extract_json_payload: parameter text
    payloads,           \* what _extract_json_payload returned, call after call
    modelReply,         \* interpret_user_command: what the reply of the model parsed to
    run                 \* main.run from line 262: its locals and what it did so far

vars == << activeModelName, model, calls, gen, action, found, exec, max_cycles, pc,
           cycle, decision, idx, outcome, events, nSnapshots,
           nDispatched, nActions, cmd, workflow, txt, payloads, modelReply, run >>

\* the variables of the text functions
textVars == << cmd, workflow, txt, payloads, modelReply >>

----------------------------------------------------------------------------
(* Bounds *)

\* longest model listing the provider returns
MaxListed == 2
\* number of _generate calls made on one engine
MaxCalls == 2
\* longest actions list of a decision
MaxActions == 2
\* largest max_cycles handed to execute_llm_actions
MaxCycles == 2
\* longest task list main.run works through
MaxTasks == 2
\* most image files in the folder of one SKU
MaxImages == 2

----------------------------------------------------------------------------
(* GeminiLLMEngine: model discovery and switching (src/llm_engine.py) *)

DEFAULT_MODEL == "gemini-2.5-flash"

MODEL_CANDIDATES ==
    << "gemini-2.5-flash",
       "gemini-2.5-flash-lite",
       "gemini-2.0-flash-exp",
       "gemini-1.5-flash-latest",
       "gemini-1.5-pro-latest" >>

\* identifiers the provider may list: two known candidates and two others
ProviderIds == {"gemini-2.5-flash", "gemini-2.5-flash-lite", "gemma-3", "learnlm"}

\* in execute_llm_actions the provider lists the default model and one alternate
LoopProviderIds == {"gemini-2.5-flash", "gemini-2.5-flash-lite"}

\* one entry of genai.list_models(): a resource name and its generation methods
ListedModels(ids) ==
    [name : {<<"models", id>> : id \in ids},
     supported_generation_methods : {{"generateContent"}, {"embedContent"}}]

RECURSIVE SeqsUpTo(_, _)
SeqsUpTo(S, n) ==
    IF n = 0 THEN {<<>>}
    ELSE LET shorter == SeqsUpTo(S, n - 1)
         IN  shorter \cup {Append(s, x) : s \in {t \in shorter : Len(t) = n - 1}, x \in S}

\* what genai.list_models() does: raise, or return a listing
ListingRaised == [raised |-> TRUE, models |-> <<>>]
Listings(ids) ==
    {ListingRaised}
    \cup {[raised |-> FALSE, models |-> l] : l \in SeqsUpTo(ListedModels(ids), MaxListed)}

\* the set of identifiers for which genai.GenerativeModel(model_name=...) succeeds
CtorOutcomes(ids) == SUBSET ids

InSeq(x, s) == \E i \in 1..Len(s) : s[i] = x

\* model.name.split("/")[-1]
LastComponent(name) == name[Len(name)]

\* list(dict.fromkeys(names)): first occurrences, in order
RECURSIVE DictFromKeys(_)
DictFromKeys(names) ==
    IF names = <<>> THEN <<>>
    ELSE LET front == DictFromKeys(SubSeq(names, 1, Len(names) - 1))
             last  == names[Len(names)]
         IN  IF InSeq(last, front) THEN front ELSE Append(front, last)

discover_supported_models(listing) ==
    IF listing.raised THEN <<>>
    ELSE LET capable == SelectSeq(listing.models,
                            LAMBDA m : "generateContent" \in m.supported_generation_methods)
             names   == [i \in 1..Len(capable) |-> LastComponent(capable[i].name)]
         IN  DictFromKeys(names)

\* the `ordered` list of _try_switch_to_supported_model, built before the loop
OrderedCandidates(active, available) ==
    LET known == SelectSeq(MODEL_CANDIDATES,
                          LAMBDA c : InSeq(c, available) /\ c # active)
        other == SelectSeq(available,
                          LAMBDA n : ~InSeq(n, known) /\ n # active)
    IN  known \o other

----------------------------------------------------------------------------
(* GeminiLLMEngine._generate, step by step *)

\* key absent from a JSON object
MissingKey == "<missing>"

\* a response text, named by what json.loads(_extract_json_payload(text)) makes of it:
\* None (no text), "" (empty), prose that is not JSON, or the JSON value it holds
Text(type, actions, risk) == [type |-> type, actions |-> actions, risk |-> risk]
NoActions == [type |-> "missing", items |-> <<>>]
NoneText  == Text("None", NoActions, MissingKey)
EmptyText == Text("empty", NoActions, MissingKey)
ProseText == Text("prose", NoActions, MissingKey)
ArrayText == Text("array", NoActions, MissingKey)
NumberText == Text("number", NoActions, MissingKey)

\* (response.text or "")
TextOrEmpty(t) == IF t = NoneText THEN EmptyText ELSE t

\* the frame of one _generate call.  requests: the models the requests of this call
\* were sent to, in order; answered: which of them answered (0: none); ctorFailed:
\* the candidates whose genai.GenerativeModel(...) raised.
GenFrame(gpc, before, requests) ==
    [pc |-> gpc, before |-> before, requests |-> requests, answered |-> 0,
     listingRaised |-> FALSE, available |-> <<>>, ordered |-> <<>>, i |-> 0,
     ctorFailed |-> <<>>, error |-> ""]

NoGen == GenFrame("idle", [active |-> "", model |-> ""], <<>>)

\* entry of _generate
BeginGenerate == GenFrame("primary", [active |-> activeModelName, model |-> model], <<>>)

\* the primary request sent to the default model, whatever was switched to
GenPrimaryOnDefault ==
    /\ gen.pc = "primary"
    /\ \E ok \in BOOLEAN :
          gen' = [gen EXCEPT !.requests = Append(@, DEFAULT_MODEL),
                             !.answered = IF ok THEN 1 ELSE 0,
                             !.pc = IF ok THEN "returned" ELSE "discover"]
    /\ UNCHANGED << activeModelName, model >>

\* lines 84-88: the primary request, sent to self.model
GenPrimary ==
    /\ gen.pc = "primary"
    /\ \E ok \in BOOLEAN :
          gen' = [gen EXCEPT !.requests = Append(@, model),
                             !.answered = IF ok THEN 1 ELSE 0,
                             !.pc = IF ok THEN "returned" ELSE "discover"]
    /\ UNCHANGED << activeModelName, model >>

\* lines 67-71: discovery and the ordered list of candidates
GenDiscover(ids) ==
    /\ gen.pc = "discover"
    /\ \E listing \in Listings(ids) :
          LET available == discover_supported_models(listing)
          IN  gen' = [gen EXCEPT !.listingRaised = listing.raised,
                                 !.available = available,
                                 !.ordered = OrderedCandidates(activeModelName, available),
                                 !.i = 1,
                                 !.pc = "switch"]
    /\ UNCHANGED << activeModelName, model >>

\* lines 73-80: one iteration of `for candidate in ordered`; the name is assigned
\* before the model object is built
GenSwitch ==
    /\ gen.pc = "switch"
    /\ gen.i <= Len(gen.ordered)
    /\ activeModelName' = gen.ordered[gen.i]
    /\ \E built \in BOOLEAN :
          IF built
          THEN /\ model' = gen.ordered[gen.i]
               /\ gen' = [gen EXCEPT !.pc = "retry"]
          ELSE /\ model' = model
               /\ gen' = [gen EXCEPT !.i = @ + 1,
                                     !.ctorFailed = Append(@, gen.ordered[gen.i])]

\* the failed switch swallowed: _generate returns without a text
GenNoFallbackReturns ==
    /\ gen.pc = "switch"
    /\ gen.i > Len(gen.ordered)
    /\ gen' = [gen EXCEPT !.pc = "returned"]
    /\ UNCHANGED << activeModelName, model >>

\* lines 81 and 90-91: no candidate left, _generate raises
GenNoFallback ==
    /\ gen.pc = "switch"
    /\ gen.i > Len(gen.ordered)
    /\ gen' = [gen EXCEPT !.pc = "raised",
                          !.error = "LLM request failed and no fallback model could be selected."]
    /\ UNCHANGED << activeModelName, model >>

\* lines 93-98: the retried request, sent to self.model
GenRetry ==
    /\ gen.pc = "retry"
    /\ \E ok \in BOOLEAN :
          gen' = [gen EXCEPT !.requests = Append(@, model),
                             !.answered = IF ok THEN 2 ELSE 0,
                             !.pc = IF ok THEN "returned" ELSE "raised",
                             !.error = IF ok THEN "" ELSE "LLM request failed"]
    /\ UNCHANGED << activeModelName, model >>

\* the steps inside a _generate call, the provider listing identifiers among ids
GenSteps(ids) ==
    \/ GenPrimary
    \/ GenDiscover(ids)
    \/ GenSwitch
    \/ GenNoFallback
    \/ GenRetry

----------------------------------------------------------------------------
(* Python str operations used by GeminiLLMEngine; a str is a sequence of      *)
(* one-character strings, positions count from 1 and 0 stands for "not found" *)

\* a character a TLA+ string cannot hold, by name
Backtick == "<backtick>"

\* str.lower(), character by character: the lower case of each capital letter
LowerOf ==
    LET UpperCase == <<"A", "B", "C", "D", "E", "F", "G", "H", "I", "J", "K", "L", "M", "N", "O", "P", "Q", "R", "S", "T", "U", "V", "W", "X", "Y", "Z">>
        LowerCase == <<"a", "b", "c", "d", "e", "f", "g", "h", "i", "j", "k", "l", "m", "n", "o", "p", "q", "r", "s", "t", "u", "v", "w", "x", "y", "z">>
    IN  [c \in {UpperCase[k] : k \in 1..26} |->
            LowerCase[CHOOSE k \in 1..26 : UpperCase[k] = c]]
lower(s) ==
    SubSeq([i \in 1..Len(s) |-> IF s[i] \in DOMAIN LowerOf THEN LowerOf[s[i]] ELSE s[i]],
           1, Len(s))

\* [a-zA-Z] and \d
Letters == DOMAIN LowerOf \cup {LowerOf[c] : c \in DOMAIN LowerOf}
Digits == {"0", "1", "2", "3", "4", "5", "6", "7", "8", "9"}

\* what \s matches and str.strip() removes
Whitespace == {" ", "\t", "\n"}

\* what \w matches
WordChars == Letters \cup Digits \cup {"_"}

Min(S) == CHOOSE x \in S : \A y \in S : x <= y
Max(S) == CHOOSE x \in S : \A y \in S : x >= y

\* str.strip(chars): leading and trailing characters of the set removed
StripChars(s, set) ==
    IF \A i \in 1..Len(s) : s[i] \in set THEN <<>>
    ELSE SubSeq(s,
                CHOOSE i \in 1..Len(s) : s[i] \notin set /\ \A k \in 1..(i - 1) : s[k] \in set,
                CHOOSE i \in 1..Len(s) : s[i] \notin set /\ \A k \in (i + 1)..Len(s) : s[k] \in set)

\* str.strip()
strip(s) == StripChars(s, Whitespace)

\* pat occurs in s at position i
MatchAt(s, pat, i) ==
    /\ i >= 1
    /\ i + Len(pat) - 1 <= Len(s)
    /\ \A k \in 1..Len(pat) : s[i + k - 1] = pat[k]

\* pat in s
Contains(s, pat) == \E i \in 1..Len(s) : MatchAt(s, pat, i)

\* str.find(pat) and str.rfind(pat)
find(s, pat) ==
    IF Contains(s, pat) THEN Min({i \in 1..Len(s) : MatchAt(s, pat, i)}) ELSE 0
rfind(s, pat) ==
    IF Contains(s, pat) THEN Max({i \in 1..Len(s) : MatchAt(s, pat, i)}) ELSE 0

\* \b at the gap before position p
WordBoundary(s, p) ==
    LET before == p > 1 /\ p - 1 <= Len(s) /\ s[p - 1] \in WordChars
        after  == p >= 1 /\ p <= Len(s) /\ s[p] \in WordChars
    IN  before # after

\* the position after the run of characters of the set that starts at p
RunEnd(s, p, set) ==
    CHOOSE q \in p..(Len(s) + 1) :
        /\ q = Len(s) + 1 \/ s[q] \notin set
        /\ \A k \in p..(q - 1) : s[k] \in set

\* the position \s* reaches from p
SkipSpaces(s, p) == RunEnd(s, p, Whitespace)

\* \s+ at p: the position it reaches, 0 when there is no whitespace at p
SomeSpaces(s, p) ==
    IF p >= 1 /\ p <= Len(s) /\ s[p] \in Whitespace THEN SkipSpaces(s, p) ELSE 0

\* a regular-expression match: whether it matched, and group(1)
Match(grp) == [matched |-> TRUE, group |-> grp]
NoMatch == [matched |-> FALSE, group |-> <<>>]

----------------------------------------------------------------------------
(* GeminiLLMEngine._extract_json_payload *)

\* re.search of line 40: the match at the leftmost position that has one.  At
\* position i: the fence, an optional json, whitespace, then the longest {...}
\* (or [...]) that whitespace and a fence follow
FencedSearch(s) ==
    LET Fence == <<Backtick, Backtick, Backtick>>
        FencedAt(i) ==
            IF ~MatchAt(s, Fence, i) THEN NoMatch
            ELSE LET j == IF MatchAt(s, <<"j", "s", "o", "n">>, i + 3) THEN i + 7 ELSE i + 3
                     g == SkipSpaces(s, j)
                     closer == IF g <= Len(s) /\ s[g] = "{" THEN "}" ELSE "]"
                     ends == {e \in (g + 1)..Len(s) :
                                 s[e] = closer /\ MatchAt(s, Fence, SkipSpaces(s, e + 1))}
                 IN  IF g <= Len(s) /\ s[g] \in {"{", "["} /\ ends # {}
                     THEN Match(SubSeq(s, g, Max(ends)))
                     ELSE NoMatch
        starts == {i \in 1..Len(s) : FencedAt(i).matched}
    IN  IF starts = {} THEN NoMatch ELSE FencedAt(Min(starts))

\* the third strategy cutting one character before the opener
extract_json_payload_from_before(text) ==
    LET stripped == strip(text)
        fenced == FencedSearch(stripped)
        opens == {i \in {find(stripped, <<"{">>), find(stripped, <<"[">>)} : i # 0}
        start == IF opens = {} THEN 0 ELSE Min(opens)
        candidate == SubSeq(stripped, start - 1, Len(stripped))
        end == Max({rfind(candidate, <<"}">>), rfind(candidate, <<"]">>)})
    IN  IF MatchAt(stripped, <<"{">>, 1) \/ MatchAt(stripped, <<"[">>, 1) THEN stripped
        ELSE IF fenced.matched THEN strip(fenced.group)
        ELSE IF start = 0 THEN stripped
        ELSE IF end # 0 THEN SubSeq(candidate, 1, end) ELSE candidate

extract_json_payload(text) ==
    LET stripped == strip(text)
        fenced == FencedSearch(stripped)
        opens == {i \in {find(stripped, <<"{">>), find(stripped, <<"[">>)} : i # 0}
        start == IF opens = {} THEN 0 ELSE Min(opens)
        candidate == SubSeq(stripped, start, Len(stripped))
        end_obj == rfind(candidate, <<"}">>)
        end_arr == rfind(candidate, <<"]">>)
        end == Max({end_obj, end_arr})
    IN  IF MatchAt(stripped, <<"{">>, 1) \/ MatchAt(stripped, <<"[">>, 1) THEN stripped
        ELSE IF fenced.matched THEN strip(fenced.group)
        ELSE IF start = 0 THEN stripped
        ELSE IF end # 0 THEN SubSeq(candidate, 1, end) ELSE candidate

----------------------------------------------------------------------------
(* GeminiLLMEngine._fallback_command_parse *)

\* JSON values: strings, numbers, null and objects (key -> value); a str is its
\* characters, or one unit for the fixed texts `operation` and `notes` hold
Str(chars) == [type |-> "str", chars |-> chars, int |-> 0, fields |-> <<>>]
Number(n) == [type |-> "int", chars |-> <<>>, int |-> n, fields |-> <<>>]
Null == [type |-> "null", chars |-> <<>>, int |-> 0, fields |-> <<>>]
Object(fields) == [type |-> "object", chars |-> <<>>, int |-> 0, fields |-> fields]

\* dict[key] = value
Put(dict, key, value) ==
    [k \in DOMAIN dict \cup {key} |-> IF k = key THEN value ELSE dict[k]]

EmptyDict == [k \in {} |-> Null]

\* int(value) on a run of digits
RECURSIVE ParseInt(_)
ParseInt(digits) ==
    IF digits = <<>> THEN 0
    ELSE 10 * ParseInt(SubSeq(digits, 1, Len(digits) - 1))
         + (CHOOSE n \in 0..9 : <<"0", "1", "2", "3", "4", "5", "6", "7", "8", "9">>[n + 1] = digits[Len(digits)])

\* float(value) if "." in value else int(value); a float is its integer part
\* and its decimals, point included, without trailing zeros
ParseNumber(value) ==
    LET dot == find(value, <<".">>)
    IN  IF dot = 0 THEN Number(ParseInt(value))
        ELSE [type |-> "float",
              chars |-> StripChars(<<".">> \o SubSeq(value, dot + 1, Len(value)), {"0"}),
              int |-> ParseInt(SubSeq(value, 1, dot - 1)),
              fields |-> <<>>]

\* line 179: \bsku\s*[:#-]?\s*([A-Za-z0-9_-]+)\b, ignoring case -------------

SkuChars == Letters \cup Digits \cup {"_", "-"}

\* low: s in lower case, for the match that ignores case.  SkuGroup is
\* ([A-Za-z0-9_-]+)\b from g: the longest run that ends at a word boundary
SkuSearch(s) ==
    LET low == lower(s)
        SkuGroup(g) ==
            LET ends == {e \in g..Len(s) :
                            /\ \A k \in g..e : s[k] \in SkuChars
                            /\ WordBoundary(s, e + 1)}
            IN  IF ends = {} THEN NoMatch ELSE Match(SubSeq(s, g, Max(ends)))
        SkuAt(i) ==
            IF ~(WordBoundary(s, i) /\ MatchAt(low, <<"s", "k", "u">>, i)) THEN NoMatch
            ELSE LET p == SkipSpaces(s, i + 3)
                     separated == IF p <= Len(s) /\ s[p] \in {":", "#", "-"}
                                  THEN SkuGroup(SkipSpaces(s, p + 1))
                                  ELSE NoMatch
                 IN  IF separated.matched THEN separated ELSE SkuGroup(p)
        starts == {i \in 1..Len(s) : SkuAt(i).matched}
    IN  IF starts = {} THEN NoMatch ELSE SkuAt(Min(starts))

\* line 185: re.findall of "([^"]+)" ----------------------------------------

Quote == "\""

\* the spans found from position p on; NextQuote is the next quote at or after
\* q, Len(s) + 1 when there is none
RECURSIVE quoted_chunks(_, _)
quoted_chunks(s, p) ==
    LET NextQuote(q) ==
            CHOOSE r \in q..(Len(s) + 1) :
                /\ r = Len(s) + 1 \/ s[r] = Quote
                /\ \A k \in q..(r - 1) : s[k] # Quote
        open  == NextQuote(p)
        close == NextQuote(open + 1)
    IN  IF open > Len(s) \/ close > Len(s) THEN <<>>
        ELSE IF close = open + 1 THEN quoted_chunks(s, close)
        ELSE <<SubSeq(s, open + 1, close - 1)>> \o quoted_chunks(s, close + 1)

\* lines 187-191: (?:update|change)\s+(?:the\s+)?(?:name|title).+?\bto\b\s+(.+)$,
\* ignoring case ------------------------------------------------------------

NoNewline(s, a, b) == \A k \in a..b : s[k] # "\n"

\* the position after the first of the words that occurs at p, 0 when none does
AfterWord(s, words, p) ==
    LET hits == {k \in 1..Len(words) : MatchAt(s, words[k], p)}
    IN  IF hits = {} THEN 0 ELSE p + Len(words[Min(hits)])

\* \bto\b at u
ToAt(s, u) ==
    /\ WordBoundary(s, u)
    /\ MatchAt(s, <<"t", "o">>, u)
    /\ WordBoundary(s, u + 2)

\* NameHeadAt: the position after (?:update|change)\s+(?:the\s+)?(?:name|title)
\* from i; NameTailAt: .+?\bto\b\s+(.+)$ from t, the nearest `to` that whitespace
\* and a rest follow
NameSearch(s) ==
    LET low == lower(s)
        NameHeadAt(i) ==
            LET verb == AfterWord(low, << <<"u", "p", "d", "a", "t", "e">>, <<"c", "h", "a", "n", "g", "e">> >>, i)
                q    == IF verb = 0 THEN 0 ELSE SomeSpaces(low, verb)
                the  == IF q # 0 /\ MatchAt(low, <<"t", "h", "e">>, q) THEN SomeSpaces(low, q + 3) ELSE 0
                noun == << <<"n", "a", "m", "e">>, <<"t", "i", "t", "l", "e">> >>
            IN  IF q = 0 THEN 0
                ELSE IF the # 0 /\ AfterWord(low, noun, the) # 0 THEN AfterWord(low, noun, the)
                ELSE AfterWord(low, noun, q)
        NameTailAt(t) ==
            LET tos == {u \in (t + 1)..Len(s) :
                           /\ ToAt(low, u)
                           /\ NoNewline(s, t, u - 1)
                           /\ SomeSpaces(s, u + 2) # 0
                           /\ SomeSpaces(s, u + 2) <= Len(s)
                           /\ NoNewline(s, SomeSpaces(s, u + 2), Len(s))}
            IN  IF tos = {} THEN NoMatch
                ELSE Match(SubSeq(s, SomeSpaces(s, Min(tos) + 2), Len(s)))
        NameAt(i) == IF NameHeadAt(i) = 0 THEN NoMatch ELSE NameTailAt(NameHeadAt(i))
        starts == {i \in 1..Len(s) : NameAt(i).matched}
    IN  IF starts = {} THEN NoMatch ELSE NameAt(Min(starts))

\* line 195: \b(?:price|prices?)\b.*?\bto\b\s*(\d+(?:\.\d+)?) ----------------

\* NumberAt: (\d+(?:\.\d+)?) at v; PriceHeadAt: the position after
\* \b(?:price|prices?)\b from i, 0 when it does not match
PriceSearch(s) ==
    LET NumberAt(v) ==
            LET e == RunEnd(s, v, Digits)
                f == RunEnd(s, e + 1, Digits)
            IN  IF v > Len(s) \/ e = v THEN NoMatch
                ELSE IF e <= Len(s) /\ s[e] = "." /\ f > e + 1 THEN Match(SubSeq(s, v, f - 1))
                ELSE Match(SubSeq(s, v, e - 1))
        PriceHeadAt(i) ==
            IF ~(WordBoundary(s, i) /\ MatchAt(s, <<"p", "r", "i", "c", "e">>, i)) THEN 0
            ELSE IF WordBoundary(s, i + 5) THEN i + 5
            ELSE IF MatchAt(s, <<"s">>, i + 5) /\ WordBoundary(s, i + 6) THEN i + 6
            ELSE 0
        PriceAt(i) ==
            LET p   == PriceHeadAt(i)
                tos == {u \in p..Len(s) :
                           /\ ToAt(s, u)
                           /\ NoNewline(s, p, u - 1)
                           /\ NumberAt(SkipSpaces(s, u + 2)).matched}
            IN  IF p = 0 \/ tos = {} THEN NoMatch
                ELSE NumberAt(SkipSpaces(s, Min(tos) + 2))
        starts == {i \in 1..Len(s) : PriceAt(i).matched}
    IN  IF starts = {} THEN NoMatch ELSE PriceAt(Min(starts))

\* line 200: \b(?:of|for|in)\s+([a-zA-Z][a-zA-Z\s]+?)
\*           (?:\s+from\s+the\s+file|\s+to\s+|$) ------------------------------

\* \s+ and then each word of the list followed by \s+ ... : the words separated
\* by whitespace, from q; TRUE when they all match
RECURSIVE SpacedWords(_, _, _)
SpacedWords(s, words, q) ==
    IF words = <<>> THEN TRUE
    ELSE /\ SomeSpaces(s, q) # 0
         /\ MatchAt(s, words[1], SomeSpaces(s, q))
         /\ SpacedWords(s, Tail(words), SomeSpaces(s, q) + Len(words[1]))

\* CategoryEndAt: (?:\s+from\s+the\s+file|\s+to\s+|$) at q
CategorySearch(s) ==
    LET CategoryEndAt(q) ==
            \/ SpacedWords(s, << <<"f", "r", "o", "m">>, <<"t", "h", "e">>, <<"f", "i", "l", "e">> >>, q)
            \/ /\ SpacedWords(s, << <<"t", "o">> >>, q)
               /\ SomeSpaces(s, SomeSpaces(s, q) + 2) # 0
            \/ q = Len(s) + 1
            \/ (q = Len(s) /\ s[q] = "\n")
        CategoryAt(i) ==
            LET key  == IF WordBoundary(s, i)
                        THEN AfterWord(s, << <<"o", "f">>, <<"f", "o", "r">>, <<"i", "n">> >>, i) ELSE 0
                g    == IF key = 0 THEN 0 ELSE SomeSpaces(s, key)
                ends == {e \in (g + 1)..Len(s) :
                            /\ \A k \in (g + 1)..e : s[k] \in Letters \/ s[k] \in Whitespace
                            /\ CategoryEndAt(e + 1)}
            IN  IF g = 0 \/ g > Len(s) THEN NoMatch
                ELSE IF s[g] \notin Letters \/ ends = {} THEN NoMatch
                ELSE Match(SubSeq(s, g, Min(ends)))
        starts == {i \in 1..Len(s) : CategoryAt(i).matched}
    IN  IF starts = {} THEN NoMatch ELSE CategoryAt(Min(starts))

\* the bulk test made before the new-listing test
OperationBulkFirst(lowered) ==
    IF \/ Contains(lowered, <<"b", "u", "l", "k">>)
       \/ Contains(lowered, <<"a", "l", "l", " ">>)
       \/ Contains(lowered, <<" ", "a", "l", "l">>)
    THEN "bulk_update"
    ELSE IF Contains(lowered, <<"n", "e", "w">>) /\ Contains(lowered, <<"l", "i", "s", "t">>) THEN "new_listing"
    ELSE "edit_listing"

\* lines 173-177
Operation(lowered) ==
    IF Contains(lowered, <<"n", "e", "w">>) /\ Contains(lowered, <<"l", "i", "s", "t">>) THEN "new_listing"
    ELSE IF \/ Contains(lowered, <<"b", "u", "l", "k">>)
            \/ Contains(lowered, <<"a", "l", "l", " ">>)
            \/ Contains(lowered, <<" ", "a", "l", "l">>)
         THEN "bulk_update"
    ELSE "edit_listing"

FallbackNotes == "Fallback parser used because LLM response was unavailable or invalid."

\* the category taken whatever else the command says
HasIntentAlways(lowered) == TRUE

\* line 201: the command mentions a price or an update
HasIntent(lowered) ==
    \E token \in { <<"p", "r", "i", "c", "e">>, <<"p", "r", "i", "c", "e", "s">>, <<"c", "h", "a", "n", "g", "e">>, <<"u", "p", "d", "a", "t", "e">> } : Contains(lowered, token)

\* the last span taken for the new title without a title phrase
RetitlesWithoutPhrase(chunks, updates) == Len(chunks) >= 2

\* line 204: the quoted spans name the row and the new title
Retitles(chunks, updates) == Len(chunks) >= 2 /\ "title" \in DOMAIN updates

\* a descriptor that leaves out the mappings in which nothing was extracted
WorkflowDroppingEmpty(operation, updates, sku, filters, notes) ==
    Object([k \in {"operation", "sku", "notes"}
                  \cup (IF updates = EmptyDict THEN {} ELSE {"updates"})
                  \cup (IF filters = EmptyDict THEN {} ELSE {"filters"}) |->
               CASE k = "operation" -> Str(<<operation>>)
                 [] k = "updates"   -> Object(updates)
                 [] k = "sku"       -> Str(sku)
                 [] k = "filters"   -> Object(filters)
                 [] k = "notes"     -> Str(<<notes>>)])

\* the descriptor returned by _fallback_command_parse, as an object
Workflow(operation, updates, sku, filters, notes) ==
    Object([k \in {"operation", "updates", "sku", "filters", "notes"} |->
               CASE k = "operation" -> Str(<<operation>>)
                 [] k = "updates"   -> Object(updates)
                 [] k = "sku"       -> Str(sku)
                 [] k = "filters"   -> Object(filters)
                 [] k = "notes"     -> Str(<<notes>>)])

\* The locals normalized, lowered and the five matches are assigned once: each
\* is the one element of a set, named where the rest is computed.  The
\* apostrophe, which a TLA+ string cannot hold, is written by name.
fallback_command_parse(command) ==
    LET Descriptor(normalized, lowered, found_by) ==
            LET sku_match == found_by.sku
                sku == IF sku_match.matched THEN sku_match.group ELSE <<>>
                chunks == found_by.quoted.group
                name_match == found_by.name
                titled == IF name_match.matched
                          THEN Put(EmptyDict, "title",
                                   Str(StripChars(StripChars(strip(name_match.group), {Quote}),
                                                  {"<apostrophe>"})))
                          ELSE EmptyDict
                price_match == found_by.price
                updates0 == IF price_match.matched
                            THEN Put(titled, "price", ParseNumber(price_match.group))
                            ELSE titled
                category_match == found_by.category
                filters0 == IF category_match.matched /\ HasIntent(lowered)
                            THEN Put(EmptyDict, "category", Str(strip(category_match.group)))
                            ELSE EmptyDict
                retitle == Retitles(chunks, updates0)
                locate  == Len(chunks) = 1 /\ "title" \notin DOMAIN updates0
                updates == IF retitle THEN Put(updates0, "title", Str(chunks[Len(chunks)]))
                           ELSE updates0
                filters == IF retitle \/ locate THEN Put(filters0, "title", Str(chunks[1]))
                           ELSE filters0
            IN  Workflow(Operation(lowered), updates, sku, filters, FallbackNotes)
        Searched(normalized, lowered) ==
            CHOOSE descriptor \in
                {Descriptor(normalized, lowered, found_by) :
                    found_by \in {[sku |-> SkuSearch(normalized),
                                   quoted |-> Match(quoted_chunks(normalized, 1)),
                                   name |-> NameSearch(normalized),
                                   price |-> PriceSearch(lowered),
                                   category |-> CategorySearch(lowered)]}} : TRUE
        Lowered(normalized) ==
            CHOOSE descriptor \in
                {Searched(normalized, lowered) : lowered \in {lower(normalized)}} : TRUE
    IN  CHOOSE descriptor \in {Lowered(normalized) : normalized \in {strip(command)}} : TRUE

----------------------------------------------------------------------------
(* GeminiLLMEngine.interpret_user_command *)

\* most phrases one command is made of
MaxPhrases == 3

\* the phrases of the commands: those of the documented examples and variants
Phrases ==
    { <<"U", "p", "d", "a", "t", "e", " ", "p", "r", "i", "c", "e", " ", "o", "f">>, <<"r", "i", "n", "g", "s">>, <<"r", "i", "n", "g", "s", " ", "i", "n", " ", "G", "o", "l", "d">>, <<"S", "K", "U", "1", "2", "3">>,
      <<"t", "o", " ", "7", "9", "9">>, <<"t", "o", " ", "9", "9", "9">>, <<"t", "o", " ", "7", ".", "5", "0">>,
      <<"C", "h", "a", "n", "g", "e", " ", "t", "i", "t", "l", "e">>, <<"\"", "O", "l", "d", " ", "N", "a", "m", "e", "\"">>, <<"t", "o", " ", "\"", "N", "e", "w", " ", "N", "a", "m", "e", "\"">>,
      <<"L", "i", "s", "t", " ", "n", "e", "w", " ", "p", "r", "o", "d", "u", "c", "t", " ", "f", "r", "o", "m", " ", "c", "a", "t", "a", "l", "o", "g">>, <<"a", "l", "l">>, <<"b", "u", "l", "k">> }

\* " ".join(phrases)
RECURSIVE Join(_)
Join(phrases) ==
    IF phrases = <<>> THEN <<>>
    ELSE IF Len(phrases) = 1 THEN phrases[1]
    ELSE phrases[1] \o <<" ">> \o Join(Tail(phrases))

\* the commands "Update price of <words> to <integer literal>", by their parts;
\* <words> are the phrases of letters and spaces only
PriceCommands ==
    LET WordPhrases == {p \in Phrases : \A i \in 1..Len(p) : p[i] \in Letters \cup {" "}}
    IN  {[words |-> Join(ps), literal |-> n,
          command |-> Join(<< <<"U", "p", "d", "a", "t", "e", " ", "p", "r", "i", "c", "e", " ", "o", "f">>, Join(ps), <<"t", "o">> \o <<" ">> \o n >>)] :
            ps \in SeqsUpTo(WordPhrases, MaxPhrases - 2) \ {<<>>},
            n \in { <<"7", "9", "9">>, <<"9", "9", "9">> }}

\* what json.loads(_extract_json_payload(text)) makes of a reply that is not an
\* object: None (no text), "" (empty), prose that is not JSON, an array, a number
Reply(type) == [type |-> type, chars |-> <<>>, int |-> 0, fields |-> <<>>]
Absent == Reply("absent")

\* the replies to a command: those that are no object, and the objects the model
\* answers with, each key present or not, mappings also null
CommandReplies ==
    LET PutIfPresent(dict, key, value) ==
            IF value = Absent THEN dict ELSE Put(dict, key, value)
    IN  {Reply("None"), Reply("empty"), Reply("prose"), Reply("array"), Reply("number")}
        \cup {Object(PutIfPresent(PutIfPresent(PutIfPresent(EmptyDict, "operation", o),
                                               "updates", u), "filters", f)) :
                o \in {Absent, Str(<<"bulk_update">>)},
                u \in {Absent, Null, Object(EmptyDict),
                       Object(Put(EmptyDict, "price", Number(799)))},
                f \in {Absent, Null, Object(EmptyDict)}}

\* the failure handled by returning an empty object instead of the local parse
interpret_returns_empty(g, reply, command) ==
    IF g.pc = "raised" \/ reply.type # "object"
    THEN [workflow |-> Object(EmptyDict), source |-> "Exception"]
    ELSE [workflow |-> reply, source |-> "model"]

\* lines 159-167 once _generate is over: g is its frame, reply what the request
\* that answered said.  source: the path that produced the descriptor.
interpret_user_command(g, reply, command) ==
    IF g.pc = "raised"
    THEN [workflow |-> fallback_command_parse(command), source |-> "RuntimeError"]
    ELSE IF reply.type \in {"None", "empty", "prose"}
         THEN [workflow |-> fallback_command_parse(command), source |-> "JSONDecodeError"]
    ELSE IF reply.type # "object"
         THEN [workflow |-> fallback_command_parse(command), source |-> "ValueError"]
    ELSE [workflow |-> reply, source |-> "model"]

----------------------------------------------------------------------------
(* BrowserEngine._execute_action (src/browser_engine.py) *)

\* longest list of elements one locator strategy matches
MaxMatches == 2

\* the `action` values of the prompt schema, and one the schema does not know
SchemaKinds == {"click", "type", "scroll", "hover", "wait", "upload", "press", "done"}
Kinds == SchemaKinds \cup {"swipe"}

\* action values: "" (absent or empty) or a short text, as characters
Values == {<<>>, <<"a", "b">>}
Enter == <<"E", "n", "t", "e", "r">>

\* an entry of the decision's actions list: a JSON object, or some other JSON value
Item(kind, target, value) ==
    [type |-> "object", action |-> kind, target |-> target, value |-> value]
NonObjectItem == [type |-> "string", action |-> MissingKey, target |-> "", value |-> <<>>]

\* the value is read by type, press and upload only
Items ==
    {Item(k, "Save", v) : k \in Kinds \cup {MissingKey}, v \in Values}
    \cup {NonObjectItem}

\* the chain tried from the least specific strategy
StrategiesTextFirst == <<"get_by_text", "get_by_label", "get_by_placeholder", "get_by_role_button">>

\* the locator strategies of _execute_action, in the order they are tried
Strategies == <<"get_by_label", "get_by_placeholder", "get_by_role_button", "get_by_text">>
StrategyNames == {Strategies[i] : i \in 1..Len(Strategies)}

Elements == {"e1", "e2"}
NoElement == "<none>"

\* the elements one locator matches, in document order, without repetition
MatchLists ==
    {l \in SeqsUpTo(Elements, MaxMatches) : \A i, j \in 1..Len(l) : i # j => l[i] # l[j]}
Pages == [StrategyNames -> MatchLists]

\* lines 105-111: the locator left after the chain of count() == 0 tests
RECURSIVE ResolveFrom(_, _)
ResolveFrom(page, i) ==
    IF i = Len(Strategies) \/ page[Strategies[i]] # <<>>
    THEN page[Strategies[i]]
    ELSE ResolveFrom(page, i + 1)

Resolve(page) == ResolveFrom(page, 1)

\* locator.first
First(locator) == locator[1]

\* one call on the page or a pause; delays are ranges in hundredths of a second
Op(op, element, arg) == [op |-> op, element |-> element, arg |-> arg, lo |-> 0, hi |-> 0]
random_delay(lo, hi) == [op |-> "delay", element |-> NoElement, arg |-> <<>>, lo |-> lo, hi |-> hi]
DefaultDelay == random_delay(50, 250)

ScrollSteps == 4

\* natural_scroll: steps times a wheel turn and a pause
RECURSIVE natural_scroll(_)
natural_scroll(steps) ==
    IF steps = 0 THEN <<>>
    ELSE <<Op("mouse.wheel", NoElement, <<>>), random_delay(40, 120)>> \o natural_scroll(steps - 1)

\* for char in str(value): keyboard.type(char)
TypeChars(value) == [i \in 1..Len(value) |-> Op("keyboard.type", NoElement, <<value[i]>>)]

\* an action without a kind taken for a `done`
ActionTypeDefaultsToDone(a) == IF a.action = MissingKey THEN "done" ELSE a.action

\* action.get("action", "wait")
ActionType(a) == IF a.action = MissingKey THEN "wait" ELSE a.action

\* str(value or "Enter")
PressKey(value) == IF value = <<>> THEN Enter ELSE value

\* a `done` that is not reported as terminal
IsTerminalKindNever(action_type) == FALSE

IsTerminalKind(action_type) == action_type = "done"

Result(raised, terminal, element, ops) ==
    [raised |-> raised, terminal |-> terminal, element |-> element, ops |-> ops]

\* lines 117-137: the branch taken once the locator matched something
ExecuteResolved(action_type, value, locator) ==
    LET e == First(locator)
    IN  CASE action_type = "click" ->
                <<Op("hover", e, <<>>), random_delay(10, 50), Op("click", e, <<>>), DefaultDelay>>
          []  action_type = "hover" ->
                <<Op("hover", e, <<>>), DefaultDelay>>
          []  action_type = "type" ->
                <<Op("click", e, <<>>)>> \o TypeChars(value) \o <<DefaultDelay>>
          []  action_type = "press" ->
                <<Op("keyboard.press", NoElement, PressKey(value)), DefaultDelay>>
          []  action_type = "upload" ->
                <<Op("set_input_files", e, value), random_delay(120, 260)>>
          []  OTHER -> <<>>

\* the last count() == 0 test left out: the action runs on an empty locator
UnresolvedTimesOut(action_type) == Result("TimeoutError", FALSE, NoElement, <<>>)

\* lines 112-115: nothing matched
Unresolved(action_type) == Result("", FALSE, NoElement, <<random_delay(80, 160)>>)

execute_action(a, page) ==
    IF a.type # "object"
    THEN Result("AttributeError", FALSE, NoElement, <<>>)
    ELSE LET action_type == ActionType(a)
             locator     == Resolve(page)
         IN  IF IsTerminalKind(action_type) THEN Result("", TRUE, NoElement, <<>>)
             ELSE IF action_type = "wait"
                  THEN Result("", FALSE, NoElement, <<random_delay(100, 300)>>)
             ELSE IF action_type = "scroll"
                  THEN Result("", FALSE, NoElement, natural_scroll(ScrollSteps))
             ELSE IF locator = <<>>
                  THEN Unresolved(action_type)
             ELSE Result("", FALSE, First(locator),
                         ExecuteResolved(action_type, a.value, locator))

----------------------------------------------------------------------------
(* GeminiLLMEngine.analyze_screen_with_llm *)

\* the `risk` values of the prompt schema
Risks == {"none", "captcha", "2fa", "error", "popup"}

ActionList(items) == [type |-> "array", items |-> items]
NullActions == [type |-> "null", items |-> <<>>]

\* the items of the decisions: every kind of the schema with the value left empty,
\* and an entry that is not an object
DecisionItems == {a \in Items : a.value = <<>> /\ a.action \in SchemaKinds} \cup {NonObjectItem}

\* what a JSON object's "actions" can be: absent, null, or an array
ActionsValues ==
    {NoActions, NullActions} \cup {ActionList(l) : l \in SeqsUpTo(DecisionItems, MaxActions)}

\* the texts the decision model answers with
ModelTexts ==
    {NoneText, ProseText, ArrayText, NumberText}
    \cup {Text("object", a, r) : a \in ActionsValues, r \in Risks \cup {MissingKey}}

\* the safe decision returned after a failure (lines 132-144)
FallbackDecision ==
    Text("object", ActionList(<<Item("wait", "page", <<"2">>)>>), "error")

\* json.loads raises JSONDecodeError on these
IsNotJson(text) == text.type \in {"empty", "prose"}

\* a failed _generate answered with a decision without actions
AnalyzeDropsCycle(g, text) ==
    IF g.pc = "raised"
    THEN [decision |-> Text("object", ActionList(<<>>), "error"), source |-> "Exception"]
    ELSE IF IsNotJson(TextOrEmpty(text))
         THEN [decision |-> FallbackDecision, source |-> "JSONDecodeError"]
    ELSE [decision |-> text, source |-> "model"]

\* lines 124-144 once _generate is over: g is its frame, text what the request that
\* answered said.  source: which path produced the decision.
analyze_screen_with_llm(g, text) ==
    IF g.pc = "raised" THEN [decision |-> FallbackDecision, source |-> "Exception"]
    ELSE IF IsNotJson(TextOrEmpty(text))
         THEN [decision |-> FallbackDecision, source |-> "JSONDecodeError"]
    ELSE [decision |-> text, source |-> "model"]

----------------------------------------------------------------------------
(* BrowserEngine.execute_llm_actions *)

Event(e, i, note) == [e |-> e, i |-> i, note |-> note]

\* absent or empty actions replaced by the actions of the safe decision
GetActionsOrFallback(d) ==
    IF d.actions.type = "missing" \/ (d.actions.type = "array" /\ d.actions.items = <<>>)
    THEN FallbackDecision.actions
    ELSE d.actions

\* decision.get("actions", [])
GetActions(d) == IF d.actions.type = "missing" THEN ActionList(<<>>) ELSE d.actions

\* decision.get("risk", "none")
GetRisk(d) == IF d.risk = MissingKey THEN "none" ELSE d.risk

\* the 2fa value forgotten
NeedsManualInterventionCaptchaOnly(risk) == risk = "captcha"

\* line 76
NeedsManualIntervention(risk) == risk \in {"captcha", "2fa"}

\* an _execute_action call and whether the page matched the target at all
Observed(a, page) ==
    [result |-> execute_action(a, page),
     unmatched |-> \A s \in StrategyNames : page[s] = <<>>]

\* what _execute_action can do with an item, over all pages
ExecOutcomes == [a \in DecisionItems \cup {FallbackDecision.actions.items[1]} |->
                    {Observed(a, page) : page \in Pages}]

NoExec == [result |-> Result("", FALSE, NoElement, <<>>), unmatched |-> FALSE]
NoDecision == Text("None", NoActions, MissingKey)
NoAction == NonObjectItem
NoPage == [s \in StrategyNames |-> <<>>]
\* main.run is not running
NoRun ==
    [operation |-> "", nTasks |-> 0, t |-> 0, image_paths |-> <<>>, todo |-> <<>>,
     started |-> 0, stopped |-> 0, error |-> "", log |-> <<>>]

\* two screenshots taken at the head of a cycle
CaptureTwice ==
    /\ pc = "capture"
    /\ cycle < max_cycles
    /\ nSnapshots' = nSnapshots + 2
    /\ events' = <<Event("screenshot", cycle, ""), Event("screenshot", cycle, "")>>
    /\ pc' = "analyze"
    /\ UNCHANGED << activeModelName, model, calls, gen, action, found, exec, max_cycles,
                    cycle, decision, idx, outcome, nDispatched, nActions >>
    /\ UNCHANGED << textVars, run >>

\* a cycle started although the budget is used up
CaptureOverBudget ==
    /\ pc = "capture"
    /\ cycle <= max_cycles
    /\ nSnapshots' = nSnapshots + 1
    /\ events' = <<Event("screenshot", cycle, "")>>
    /\ pc' = "analyze"
    /\ UNCHANGED << activeModelName, model, calls, gen, action, found, exec, max_cycles,
                    cycle, decision, idx, outcome, nDispatched, nActions >>
    /\ UNCHANGED << textVars, run >>

\* line 69-71: the for statement yields the next cycle and the screenshot is taken
Capture ==
    /\ pc = "capture"
    /\ cycle < max_cycles
    /\ nSnapshots' = nSnapshots + 1
    /\ events' = <<Event("screenshot", cycle, "")>>
    /\ pc' = "analyze"
    /\ UNCHANGED << activeModelName, model, calls, gen, action, found, exec, max_cycles,
                    cycle, decision, idx, outcome, nDispatched, nActions >>
    /\ UNCHANGED << textVars, run >>

\* the raise after the loop left out: the function returns None like a success
ExhaustedReturns ==
    /\ pc = "capture"
    /\ cycle >= max_cycles
    /\ pc' = "returned"
    /\ outcome' = "success"
    /\ UNCHANGED << activeModelName, model, calls, gen, action, found, exec, max_cycles,
                    cycle, decision, idx, events, nSnapshots, nDispatched, nActions >>
    /\ UNCHANGED << textVars, run >>

\* line 88: the for statement is exhausted
Exhausted ==
    /\ pc = "capture"
    /\ cycle >= max_cycles
    /\ pc' = "raised"
    /\ outcome' = "LLM action loop exhausted before completion."
    /\ UNCHANGED << activeModelName, model, calls, gen, action, found, exec, max_cycles,
                    cycle, decision, idx, events, nSnapshots, nDispatched,
                    nActions >>
    /\ UNCHANGED << textVars, run >>

RequestEvents(requests) == [i \in 1..Len(requests) |-> Event("generate_content", i, requests[i])]

\* line 72 and lines 100-125: analyze_screen_with_llm is entered and calls _generate
Analyze ==
    /\ pc = "analyze"
    /\ gen.pc = "idle"
    /\ gen' = BeginGenerate
    /\ UNCHANGED << activeModelName, model, calls, action, found, exec, max_cycles, pc,
                    cycle, decision, idx, outcome, events, nSnapshots, nDispatched, nActions >>
    /\ UNCHANGED << textVars, run >>

\* the _generate call of analyze_screen_with_llm runs
Generating ==
    /\ pc = "analyze"
    /\ GenSteps(LoopProviderIds)
    /\ UNCHANGED << calls, action, found, exec, max_cycles, pc, cycle, decision, idx,
                    outcome, events, nSnapshots, nDispatched, nActions >>
    /\ UNCHANGED << textVars, run >>

\* lines 126-144: _generate is over; the text is parsed or the safe decision is used
Parse ==
    /\ pc = "analyze"
    /\ gen.pc \in {"returned", "raised"}
    /\ \E text \in IF gen.pc = "returned" THEN ModelTexts ELSE {NoneText} :
          LET r == analyze_screen_with_llm(gen, text)
          IN  /\ decision' = r.decision
              /\ events' = events \o RequestEvents(gen.requests)
                                  \o <<Event("decision", cycle, r.source)>>
    /\ gen' = NoGen
    /\ pc' = "read"
    /\ UNCHANGED << activeModelName, model, calls, action, found, exec, max_cycles, cycle,
                    idx, outcome, nSnapshots, nDispatched, nActions >>
    /\ UNCHANGED << textVars, run >>

\* lines 73-80: read actions and risk, wait for manual intervention
ReadDecision ==
    /\ pc = "read"
    /\ IF decision.type # "object"
       THEN /\ pc' = "raised"
            /\ outcome' = "AttributeError"
            /\ UNCHANGED << events, nActions, idx >>
       ELSE /\ events' = IF NeedsManualIntervention(GetRisk(decision))
                         THEN Append(events, Event("manual_wait", cycle, GetRisk(decision)))
                         ELSE events
            /\ nActions' = nActions + Len(GetActions(decision).items)
            /\ idx' = 1
            /\ pc' = "dispatch"
            /\ UNCHANGED outcome
    /\ UNCHANGED << activeModelName, model, calls, gen, action, found, exec, max_cycles,
                    cycle, decision, nSnapshots, nDispatched >>
    /\ UNCHANGED << textVars, run >>

\* an item whose target was not resolved dispatched once more
DispatchRetrying ==
    /\ pc = "dispatch"
    /\ GetActions(decision).type = "array"
    /\ idx <= Len(GetActions(decision).items)
    /\ \E o \in ExecOutcomes[GetActions(decision).items[idx]] :
          /\ exec' = o
          /\ nDispatched' = nDispatched + 1
          /\ events' = Append(events, Event("execute_action", idx, ""))
          /\ IF o.result.raised # ""
             THEN pc' = "raised" /\ outcome' = o.result.raised /\ UNCHANGED idx
             ELSE IF o.result.terminal
             THEN pc' = "returned" /\ outcome' = "success" /\ UNCHANGED idx
             ELSE IF o.unmatched /\ events[Len(events)] # Event("execute_action", idx, "")
             THEN pc' = "dispatch" /\ UNCHANGED << idx, outcome >>
             ELSE pc' = "dispatch" /\ idx' = idx + 1 /\ UNCHANGED outcome
    /\ UNCHANGED << activeModelName, model, calls, gen, action, found, max_cycles, cycle,
                    decision, nSnapshots, nActions >>
    /\ UNCHANGED << textVars, run >>

\* lines 81-86: one iteration of `for action in actions`
Dispatch ==
    /\ pc = "dispatch"
    /\ GetActions(decision).type = "array"
    /\ idx <= Len(GetActions(decision).items)
    /\ \E o \in ExecOutcomes[GetActions(decision).items[idx]] :
          /\ exec' = o
          /\ nDispatched' = nDispatched + 1
          /\ events' = Append(events, Event("execute_action", idx, ""))
          /\ IF o.result.raised # ""
             THEN pc' = "raised" /\ outcome' = o.result.raised /\ UNCHANGED idx
             ELSE IF o.result.terminal
             THEN pc' = "returned" /\ outcome' = "success" /\ UNCHANGED idx
             ELSE pc' = "dispatch" /\ idx' = idx + 1 /\ UNCHANGED outcome
    /\ UNCHANGED << activeModelName, model, calls, gen, action, found, max_cycles, cycle,
                    decision, nSnapshots, nActions >>
    /\ UNCHANGED << textVars, run >>

\* line 81 on "actions": null
IterateNull ==
    /\ pc = "dispatch"
    /\ GetActions(decision).type = "null"
    /\ pc' = "raised"
    /\ outcome' = "TypeError"
    /\ UNCHANGED << activeModelName, model, calls, gen, action, found, exec, max_cycles,
                    cycle, decision, idx, events, nSnapshots, nDispatched,
                    nActions >>
    /\ UNCHANGED << textVars, run >>

\* lines 85-86 and 69: no action was terminal, on to the next cycle; the locals
\* of the finished cycle are dead
EndCycle ==
    /\ pc = "dispatch"
    /\ GetActions(decision).type = "array"
    /\ idx > Len(GetActions(decision).items)
    /\ cycle' = cycle + 1
    /\ pc' = "capture"
    /\ decision' = NoDecision
    /\ idx' = 0
    /\ exec' = NoExec
    /\ events' = <<>>
    /\ UNCHANGED << activeModelName, model, calls, gen, action, found, max_cycles,
                    outcome, nSnapshots, nDispatched, nActions >>
    /\ UNCHANGED << textVars, run >>

Init ==
    /\ activeModelName = DEFAULT_MODEL
    /\ model = DEFAULT_MODEL
    /\ calls = 0
    /\ gen = NoGen
    /\ action = NoAction
    /\ found = NoPage
    /\ exec = NoExec
    /\ max_cycles \in 0..MaxCycles
    /\ pc = "capture"
    /\ cycle = 0
    /\ decision = NoDecision
    /\ idx = 0
    /\ outcome = ""
    /\ events = <<>>
    /\ nSnapshots = 0
    /\ nDispatched = 0
    /\ nActions = 0
    /\ cmd = <<>>
    /\ workflow = Null
    /\ txt = <<>>
    /\ payloads = <<>>
    /\ modelReply = Absent
    /\ run = NoRun

Next ==
    \/ Capture
    \/ Exhausted
    \/ Analyze
    \/ Generating
    \/ Parse
    \/ ReadDecision
    \/ Dispatch
    \/ IterateNull
    \/ EndCycle

Spec == Init /\ [][Next]_vars

\* execute_llm_actions when every call it makes returns: the function does not
\* stop half way
SpecFair == Init /\ [][Next]_vars /\ WF_vars(Next)

----------------------------------------------------------------------------
(* A sequence of _generate calls on one engine *)

InitGenerate ==
    /\ activeModelName = DEFAULT_MODEL
    /\ model = DEFAULT_MODEL
    /\ calls = 0
    /\ gen = NoGen
    /\ action = NoAction
    /\ found = NoPage
    /\ exec = NoExec
    /\ max_cycles = 0
    /\ pc = "generate"
    /\ cycle = 0
    /\ decision = NoDecision
    /\ idx = 0
    /\ outcome = ""
    /\ events = <<>>
    /\ nSnapshots = 0
    /\ nDispatched = 0
    /\ nActions = 0
    /\ cmd = <<>>
    /\ workflow = Null
    /\ txt = <<>>
    /\ payloads = <<>>
    /\ modelReply = Absent
    /\ run = NoRun

\* a caller calls _generate once the previous call is over
GenerateCall ==
    /\ pc = "generate"
    /\ gen.pc \in {"idle", "returned", "raised"}
    /\ calls < MaxCalls
    /\ calls' = calls + 1
    /\ gen' = BeginGenerate
    /\ UNCHANGED << activeModelName, model, action, found, exec, max_cycles, pc, cycle,
                    decision, idx, outcome, events, nSnapshots, nDispatched, nActions >>
    /\ UNCHANGED << textVars, run >>

GenerateRuns ==
    /\ pc = "generate"
    /\ GenSteps(ProviderIds)
    /\ UNCHANGED << calls, action, found, exec, max_cycles, pc, cycle, decision, idx,
                    outcome, events, nSnapshots, nDispatched, nActions >>
    /\ UNCHANGED << textVars, run >>

NextGenerate ==
    \/ GenerateCall
    \/ GenerateRuns

SpecGenerate == InitGenerate /\ [][NextGenerate]_vars

----------------------------------------------------------------------------
(* One _execute_action call *)

InitExecute ==
    /\ activeModelName = DEFAULT_MODEL
    /\ model = DEFAULT_MODEL
    /\ calls = 0
    /\ gen = NoGen
    /\ action \in Items
    /\ found \in Pages
    /\ exec = NoExec
    /\ max_cycles = 0
    /\ pc = "execute"
    /\ cycle = 0
    /\ decision = NoDecision
    /\ idx = 0
    /\ outcome = ""
    /\ events = <<>>
    /\ nSnapshots = 0
    /\ nDispatched = 0
    /\ nActions = 0
    /\ cmd = <<>>
    /\ workflow = Null
    /\ txt = <<>>
    /\ payloads = <<>>
    /\ modelReply = Absent
    /\ run = NoRun

Execute ==
    /\ pc = "execute"
    /\ exec' = Observed(action, found)
    /\ pc' = "executed"
    /\ UNCHANGED << activeModelName, model, calls, gen, action, found, max_cycles, cycle,
                    decision, idx, outcome, events, nSnapshots, nDispatched, nActions >>
    /\ UNCHANGED << textVars, run >>

NextExecute == Execute

SpecExecute == InitExecute /\ [][NextExecute]_vars

----------------------------------------------------------------------------
(* One interpret_user_command call *)

InitInterpret ==
    /\ activeModelName = DEFAULT_MODEL
    /\ model = DEFAULT_MODEL
    /\ calls = 0
    /\ gen = NoGen
    /\ action = NoAction
    /\ found = NoPage
    /\ exec = NoExec
    /\ max_cycles = 0
    /\ pc = "interpret"
    /\ cycle = 0
    /\ decision = NoDecision
    /\ idx = 0
    /\ outcome = ""
    /\ events = <<>>
    /\ nSnapshots = 0
    /\ nDispatched = 0
    /\ nActions = 0
    /\ cmd \in Phrases \cup { <<"U", "p", "d", "a", "t", "e", " ", "p", "r", "i", "c", "e", " ", "o", "f", " ", "S", "K", "U", "1", "2", "3", " ", "t", "o", " ", "7", "9", "9">>,
                             <<"C", "h", "a", "n", "g", "e", " ", "t", "i", "t", "l", "e", " ", "\"", "O", "l", "d", " ", "N", "a", "m", "e", "\"", " ", "t", "o", " ", "\"", "N", "e", "w", " ", "N", "a", "m", "e", "\"">> }
    /\ workflow = Null
    /\ txt = <<>>
    /\ payloads = <<>>
    /\ modelReply = Absent
    /\ run = NoRun

\* line 160: interpret_user_command is entered and calls _generate
Interpret ==
    /\ pc = "interpret"
    /\ gen.pc = "idle"
    /\ gen' = BeginGenerate
    /\ UNCHANGED << activeModelName, model, calls, action, found, exec, max_cycles, pc,
                    cycle, decision, idx, outcome, events, nSnapshots, nDispatched, nActions >>
    /\ UNCHANGED << textVars, run >>

\* the _generate call of interpret_user_command runs
InterpretGenerating ==
    /\ pc = "interpret"
    /\ GenSteps(ProviderIds)
    /\ UNCHANGED << calls, action, found, exec, max_cycles, pc, cycle, decision, idx,
                    outcome, events, nSnapshots, nDispatched, nActions >>
    /\ UNCHANGED << textVars, run >>

\* lines 161-167: _generate is over; the reply is returned or the command is
\* parsed locally
InterpretReturn ==
    /\ pc = "interpret"
    /\ gen.pc \in {"returned", "raised"}
    /\ \E reply \in IF gen.pc = "returned" THEN CommandReplies ELSE {Reply("None")} :
          \E r \in {interpret_user_command(gen, reply, cmd)} :
              /\ workflow' = r.workflow
              /\ modelReply' = reply
              /\ events' = <<Event("workflow", 0, r.source)>>
    /\ pc' = "interpreted"
    /\ UNCHANGED << activeModelName, model, calls, gen, action, found, exec, max_cycles,
                    cycle, decision, idx, outcome, nSnapshots, nDispatched, nActions,
                    cmd, txt, payloads, run >>

NextInterpret ==
    \/ Interpret
    \/ InterpretGenerating
    \/ InterpretReturn

SpecInterpret == InitInterpret /\ [][NextInterpret]_vars

----------------------------------------------------------------------------
(* One _fallback_command_parse call *)

InitParse ==
    /\ activeModelName = DEFAULT_MODEL
    /\ model = DEFAULT_MODEL
    /\ calls = 0
    /\ gen = NoGen
    /\ action = NoAction
    /\ found = NoPage
    /\ exec = NoExec
    /\ max_cycles = 0
    /\ pc = "parse"
    /\ cycle = 0
    /\ decision = NoDecision
    /\ idx = 0
    /\ outcome = ""
    /\ events = <<>>
    /\ nSnapshots = 0
    /\ nDispatched = 0
    /\ nActions = 0
    /\ cmd \in {Join(ps) : ps \in SeqsUpTo(Phrases, MaxPhrases)}
    /\ workflow = Null
    /\ txt = <<>>
    /\ payloads = <<>>
    /\ modelReply = Absent
    /\ run = NoRun

FallbackParse ==
    /\ pc = "parse"
    /\ workflow' = fallback_command_parse(cmd)
    /\ pc' = "parsed"
    /\ UNCHANGED << activeModelName, model, calls, gen, action, found, exec, max_cycles,
                    cycle, decision, idx, outcome, events, nSnapshots, nDispatched,
                    nActions, cmd, txt, payloads, modelReply, run >>

NextParse == FallbackParse

SpecParse == InitParse /\ [][NextParse]_vars

----------------------------------------------------------------------------
(* _extract_json_payload applied to a text and then to its own result *)

\* most pieces one text is made of
MaxPieces == 5

RECURSIVE Concat(_)
Concat(pieces) ==
    IF pieces = <<>> THEN <<>> ELSE pieces[1] \o Concat(Tail(pieces))

\* the pieces of the texts: the fence, brackets, whitespace, and the word json,
\* which is the tag of a fence after one and prose anywhere else
Pieces == { <<Backtick, Backtick, Backtick>>, <<"j", "s", "o", "n">>, <<"{">>, <<"}">>, <<"[">>, <<"]">>, <<" ">> }

InitExtract ==
    /\ activeModelName = DEFAULT_MODEL
    /\ model = DEFAULT_MODEL
    /\ calls = 0
    /\ gen = NoGen
    /\ action = NoAction
    /\ found = NoPage
    /\ exec = NoExec
    /\ max_cycles = 0
    /\ pc = "extract"
    /\ cycle = 0
    /\ decision = NoDecision
    /\ idx = 0
    /\ outcome = ""
    /\ events = <<>>
    /\ nSnapshots = 0
    /\ nDispatched = 0
    /\ nActions = 0
    /\ cmd = <<>>
    /\ workflow = Null
    /\ txt \in {Concat(ps) : ps \in SeqsUpTo(Pieces, MaxPieces)}
    /\ payloads = <<>>
    /\ modelReply = Absent
    /\ run = NoRun

\* _extract_json_payload(text)
Extract ==
    /\ pc = "extract"
    /\ payloads' = <<extract_json_payload(txt)>>
    /\ pc' = "extracted"
    /\ UNCHANGED << activeModelName, model, calls, gen, action, found, exec, max_cycles,
                    cycle, decision, idx, outcome, events, nSnapshots, nDispatched,
                    nActions, cmd, workflow, txt, modelReply, run >>

\* _extract_json_payload applied to the payload just extracted
ExtractAgain ==
    /\ pc = "extracted"
    /\ payloads' = Append(payloads, extract_json_payload(payloads[1]))
    /\ pc' = "extracted twice"
    /\ UNCHANGED << activeModelName, model, calls, gen, action, found, exec, max_cycles,
                    cycle, decision, idx, outcome, events, nSnapshots, nDispatched,
                    nActions, cmd, workflow, txt, modelReply, run >>

NextExtract ==
    \/ Extract
    \/ ExtractAgain

SpecExtract == InitExtract /\ [][NextExtract]_vars

----------------------------------------------------------------------------
(* main.run from line 262 (src/main.py) and the calls it makes on the       *)
(* platform (src/platforms/common.py). An image path is named by a number,  *)
(* in the order in which sorted() puts the paths of a folder.               *)

\* the instruction handed to one execute_llm_actions call: the method that
\* built it and the image path it names (0 when it names none)
Instruction(stage, image) == [stage |-> stage, image |-> image]

\* common.py lines 14-20, after page.goto
login == <<Instruction("login", 0)>>

\* common.py lines 47-48
save_listing == <<Instruction("save_listing", 0)>>

\* common.py lines 42-45: one call per image path, in list order
upload_images(image_paths) ==
    SubSeq([k \in 1..Len(image_paths) |-> Instruction("upload_images", image_paths[k])],
           1, Len(image_paths))

\* create_listing, were it to save before the uploads
create_listing_saving_first(image_paths) ==
    <<Instruction("create_listing", 0)>> \o save_listing \o upload_images(image_paths)

\* common.py lines 22-29: the calls create_listing awaits one after the other;
\* a call that raises ends the method
create_listing(image_paths) ==
    <<Instruction("create_listing", 0)>> \o upload_images(image_paths) \o save_listing

\* common.py lines 31-40
edit_listing == <<Instruction("edit_listing", 0)>> \o save_listing

\* what get_product_image_paths can leave in image_paths (main.py lines 271-276):
\* the sorted listing of a folder of up to MaxImages images, or the empty list
ImagePathLists ==
    {SubSeq([k \in 1..MaxImages |-> k], 1, n) : n \in 0..MaxImages}

\* how one execute_llm_actions call can end: it returns, or raises the exhaustion
\* error or the error of a step
LoopOutcomes == {"success", "LLM action loop exhausted before completion.", "AttributeError"}

\* values of `operation` at line 278; the last one is not supported
Operations == {"new_listing", "edit_listing", "bulk_update", "delete_listing"}

\* one thing main.run did: an execute_llm_actions call for task t (0: the login)
\* with its instruction and how it ended, or the task_result written for task t
RunEvent(e, t, image, status) == [e |-> e, t |-> t, image |-> image, status |-> status]

InitRun ==
    /\ activeModelName = DEFAULT_MODEL
    /\ model = DEFAULT_MODEL
    /\ calls = 0
    /\ gen = NoGen
    /\ action = NoAction
    /\ found = NoPage
    /\ exec = NoExec
    /\ max_cycles = 0
    /\ pc = "start"
    /\ cycle = 0
    /\ decision = NoDecision
    /\ idx = 0
    /\ outcome = ""
    /\ events = <<>>
    /\ nSnapshots = 0
    /\ nDispatched = 0
    /\ nActions = 0
    /\ cmd = <<>>
    /\ workflow = Null
    /\ txt = <<>>
    /\ payloads = <<>>
    /\ modelReply = Absent
    /\ \E operation \in Operations, nTasks \in 0..MaxTasks :
          run = [NoRun EXCEPT !.operation = operation, !.nTasks = nTasks]

\* lines 262-263, outside the try: get_platform and browser.start return, or one
\* of them raises
RunStart ==
    /\ pc = "start"
    /\ \E o \in {"success", "ValueError", "Error"} :
          IF o = "success"
          THEN /\ run' = [run EXCEPT !.started = @ + 1]
               /\ pc' = "login"
               /\ UNCHANGED outcome
          ELSE /\ pc' = "raised"
               /\ outcome' = o
               /\ UNCHANGED run
    /\ UNCHANGED << activeModelName, model, calls, gen, action, found, exec, max_cycles,
                    cycle, decision, idx, events, nSnapshots, nDispatched, nActions >>
    /\ UNCHANGED textVars

\* lines 266-267: the page, then platform.login: page.goto raises, or the one
\* execute_llm_actions call of login is made
RunLogin ==
    /\ pc = "login"
    /\ \/ /\ run' = [run EXCEPT !.error = "Error"]
          /\ pc' = "finally"
       \/ \E o \in LoopOutcomes :
             /\ run' = [run EXCEPT
                           !.log = Append(@, RunEvent("login", 0, login[1].image, o)),
                           !.error = IF o = "success" THEN "" ELSE o]
             /\ pc' = IF o = "success" THEN "task" ELSE "finally"
    /\ UNCHANGED << activeModelName, model, calls, gen, action, found, exec, max_cycles,
                    cycle, decision, idx, outcome, events, nSnapshots, nDispatched,
                    nActions >>
    /\ UNCHANGED textVars

\* lines 268-289: the next task: its image paths, then the platform method of the
\* operation is entered; an unsupported operation raises ValueError, which line
\* 291 records
RunTask ==
    /\ pc = "task"
    /\ run.t < run.nTasks
    /\ \E image_paths \in ImagePathLists :
          IF run.operation = "new_listing"
          THEN /\ run' = [run EXCEPT !.t = @ + 1,
                                     !.image_paths = Append(@, image_paths),
                                     !.todo = create_listing(image_paths)]
               /\ pc' = "call"
          ELSE IF run.operation \in {"edit_listing", "bulk_update"}
          THEN /\ run' = [run EXCEPT !.t = @ + 1,
                                     !.image_paths = Append(@, image_paths),
                                     !.todo = edit_listing]
               /\ pc' = "call"
          ELSE /\ run' = [run EXCEPT
                             !.t = @ + 1,
                             !.image_paths = Append(@, image_paths),
                             !.log = Append(@, RunEvent("task_result", run.t + 1, 0, "failed"))]
               /\ pc' = "task"
    /\ UNCHANGED << activeModelName, model, calls, gen, action, found, exec, max_cycles,
                    cycle, decision, idx, outcome, events, nSnapshots, nDispatched,
                    nActions >>
    /\ UNCHANGED textVars

\* RunCall, were an error of the platform call to leave the task loop
RunCallAborting ==
    /\ pc = "call"
    /\ \E o \in LoopOutcomes :
          \E call \in {RunEvent(run.todo[1].stage, run.t, run.todo[1].image, o)} :
             IF o = "success" /\ Len(run.todo) > 1
             THEN /\ run' = [run EXCEPT !.log = Append(@, call), !.todo = Tail(@)]
                  /\ pc' = "call"
             ELSE /\ run' = [run EXCEPT
                                !.log = @ \o <<call,
                                               RunEvent("task_result", run.t, 0,
                                                        IF o = "success" THEN "success"
                                                                         ELSE "failed")>>,
                                !.todo = <<>>,
                                !.error = IF o = "success" THEN "" ELSE o]
                  /\ pc' = IF o = "success" THEN "task" ELSE "finally"
    /\ UNCHANGED << activeModelName, model, calls, gen, action, found, exec, max_cycles,
                    cycle, decision, idx, outcome, events, nSnapshots, nDispatched,
                    nActions >>
    /\ UNCHANGED textVars

\* the next execute_llm_actions call of the platform method; when it raises the
\* method ends and line 291 records the failure, when the last one returns line
\* 289 records the success
RunCall ==
    /\ pc = "call"
    /\ \E o \in LoopOutcomes :
          \E call \in {RunEvent(run.todo[1].stage, run.t, run.todo[1].image, o)} :
             IF o = "success" /\ Len(run.todo) > 1
             THEN /\ run' = [run EXCEPT !.log = Append(@, call), !.todo = Tail(@)]
                  /\ pc' = "call"
             ELSE /\ run' = [run EXCEPT
                                !.log = @ \o <<call,
                                               RunEvent("task_result", run.t, 0,
                                                        IF o = "success" THEN "success"
                                                                         ELSE "failed")>>,
                                !.todo = <<>>]
                  /\ pc' = "task"
    /\ UNCHANGED << activeModelName, model, calls, gen, action, found, exec, max_cycles,
                    cycle, decision, idx, outcome, events, nSnapshots, nDispatched,
                    nActions >>
    /\ UNCHANGED textVars

\* line 268: no task is left
RunLoopEnd ==
    /\ pc = "task"
    /\ run.t >= run.nTasks
    /\ pc' = "finally"
    /\ UNCHANGED << activeModelName, model, calls, gen, action, found, exec, max_cycles,
                    cycle, decision, idx, outcome, events, nSnapshots, nDispatched,
                    nActions, run >>
    /\ UNCHANGED textVars

\* lines 294-295: browser.stop is called; an error it raises replaces the one
\* that was on its way out
RunStop ==
    /\ pc = "finally"
    /\ run' = [run EXCEPT !.stopped = @ + 1]
    /\ \E o \in {"success", "Error"} :
          /\ outcome' = IF o # "success" THEN o
                        ELSE IF run.error # "" THEN run.error
                        ELSE "success"
          /\ pc' = IF o = "success" /\ run.error = "" THEN "returned" ELSE "raised"
    /\ UNCHANGED << activeModelName, model, calls, gen, action, found, exec, max_cycles,
                    cycle, decision, idx, events, nSnapshots, nDispatched, nActions >>
    /\ UNCHANGED textVars

NextRun ==
    \/ RunStart
    \/ RunLogin
    \/ RunTask
    \/ RunCall
    \/ RunLoopEnd
    \/ RunStop

SpecRun == InitRun /\ [][NextRun]_vars

----------------------------------------------------------------------------
(* Properties of execute_llm_actions *)

\* C1: once a `done` action is dispatched, execute_llm_actions returns success, and
\* from then on no screenshot is taken, no _generate call is started, no action is
\* executed and no cycle is started.
C1_DoneEndsRun ==
    /\ [](LET doneDispatched ==
                  /\ events # <<>>
                  /\ events[Len(events)].e = "execute_action"
                  /\ GetActions(decision).items[events[Len(events)].i].type = "object"
                  /\ GetActions(decision).items[events[Len(events)].i].action = "done"
          IN  /\ doneDispatched => pc = "returned" /\ outcome = "success"
              /\ outcome = "success" => doneDispatched)
    /\ [][LET doneDispatched ==
                  /\ events # <<>>
                  /\ events[Len(events)].e = "execute_action"
                  /\ GetActions(decision).items[events[Len(events)].i].type = "object"
                  /\ GetActions(decision).items[events[Len(events)].i].action = "done"
          IN  doneDispatched =>
                  /\ nSnapshots' = nSnapshots
                  /\ nDispatched' = nDispatched
                  /\ gen' = gen
                  /\ events' = events
                  /\ cycle' = cycle]_vars

\* a `done` dispatched as the second action of the second cycle
C1_Witness ==
    /\ pc = "returned"
    /\ outcome = "success"
    /\ cycle = 1
    /\ max_cycles = 2
    /\ Len(GetActions(decision).items) = 2
    /\ GetActions(decision).items[2].action = "done"
    /\ events[Len(events)] = Event("execute_action", 2, "")

\* C2: when every decision is an object with a list of action objects and none of
\* them is dispatched as `done`, the run takes exactly max_cycles cycles, dispatches
\* each action of each cycle exactly once and in order, and ends with the exhaustion
\* error; it returns success only after a `done`.
C2_NoDoneExhausts ==
    LET dispatched == SelectSeq(events, LAMBDA ev : ev.e = "execute_action")
        exhausted  == pc = "raised" /\ outcome = "LLM action loop exhausted before completion."
        malformed  == \/ decision.type # "object"
                      \/ decision.actions.type = "null"
                      \/ \E i \in 1..Len(decision.actions.items) :
                            decision.actions.items[i].type # "object"
    IN  /\ (outcome = "success" =>
               /\ dispatched # <<>>
               /\ GetActions(decision).items[dispatched[Len(dispatched)].i].action = "done")
        /\ (pc = "raised" => exhausted \/ malformed)
        /\ (exhausted => /\ cycle = max_cycles
                         /\ nSnapshots = max_cycles
                         /\ nDispatched = nActions)
        /\ (pc = "capture" => nSnapshots = cycle /\ nDispatched = nActions)
        /\ (pc = "analyze" => nSnapshots = cycle + 1)
        /\ (pc \in {"dispatch", "returned"} =>
               /\ \A i \in 1..Len(dispatched) : dispatched[i].i = i
               /\ Len(dispatched) = IF pc = "dispatch" THEN idx - 1 ELSE idx
               /\ nActions - nDispatched = Len(GetActions(decision).items) - Len(dispatched))

\* two cycles with two actions each, then the exhaustion error
C2_Witness ==
    /\ pc = "raised"
    /\ outcome = "LLM action loop exhausted before completion."
    /\ max_cycles = 2
    /\ nSnapshots = 2
    /\ nDispatched = 3
    /\ nActions = 3

\* C3: in a cycle whose decision has risk captcha or 2fa, exactly one 8-12 second
\* wait is issued, after the decision is obtained and before any action of the
\* cycle is dispatched and before the cycle counter advances, and the cycle's
\* actions are dispatched after it; with any other risk no such wait is issued.
C3_ManualWaitBeforeDispatch ==
    /\ [](LET risky == /\ decision.type = "object"
                       /\ decision.risk \in {"captcha", "2fa"}
              waits == {i \in 1..Len(events) : events[i].e = "manual_wait"}
              pastRead == pc \in {"dispatch", "returned"}
                          \/ (pc = "raised" /\ decision.type = "object")
          IN  /\ (pastRead /\ risky => Cardinality(waits) = 1)
              /\ (~(pastRead /\ risky) => waits = {})
              /\ \A w \in waits :
                    /\ \E d \in 1..(w - 1) : events[d].e = "decision"
                    /\ \A a \in 1..Len(events) : events[a].e = "execute_action" => w < a)
    /\ [][LET risky == /\ decision.type = "object"
                       /\ decision.risk \in {"captcha", "2fa"}
          IN  cycle' # cycle /\ risky =>
                /\ \E w \in 1..Len(events) : events[w].e = "manual_wait"
                /\ Len(SelectSeq(events, LAMBDA ev : ev.e = "execute_action"))
                      = Len(GetActions(decision).items)]_vars

\* a 2fa cycle that waited and then dispatched both of its actions
C3_Witness ==
    /\ decision.type = "object"
    /\ decision.risk = "2fa"
    /\ pc = "dispatch"
    /\ idx = 3
    /\ \E w \in 1..Len(events) : events[w].e = "manual_wait" /\ events[w].note = "2fa"
    /\ events[Len(events)].e = "execute_action"

\* C4: a click, hover, type or upload whose target no strategy matches changes
\* nothing on the page, pauses once for 0.8-1.6 seconds, reports terminal = false
\* and raises nothing, and the loop goes on with the next action or the next cycle.
C4_UnresolvedIsNoOp ==
    /\ [](LET last == events[Len(events)]
              unresolvedJustDispatched ==
                  /\ pc \in {"dispatch", "returned", "raised"}
                  /\ events # <<>>
                  /\ last.e = "execute_action"
                  /\ GetActions(decision).items[last.i].type = "object"
                  /\ GetActions(decision).items[last.i].action
                        \in {"click", "hover", "type", "upload"}
                  /\ exec.unmatched
          IN  unresolvedJustDispatched =>
                /\ exec.result.raised = ""
                /\ ~exec.result.terminal
                /\ exec.result.element = NoElement
                /\ exec.result.ops = <<random_delay(80, 160)>>
                /\ pc = "dispatch"
                /\ outcome = ""
                /\ idx = last.i + 1)
    /\ [][LET last == events[Len(events)]
              unresolvedJustDispatched ==
                  /\ pc \in {"dispatch", "returned", "raised"}
                  /\ events # <<>>
                  /\ last.e = "execute_action"
                  /\ GetActions(decision).items[last.i].type = "object"
                  /\ GetActions(decision).items[last.i].action
                        \in {"click", "hover", "type", "upload"}
                  /\ exec.unmatched
          IN  unresolvedJustDispatched =>
                \/ /\ pc' = "capture"
                   /\ cycle' = cycle + 1
                   /\ idx > Len(GetActions(decision).items)
                \/ /\ events' = Append(events, Event("execute_action", last.i + 1, ""))
                   /\ cycle' = cycle]_vars

\* an unmatched click as the first of two actions, the second one dispatched next
C4_Witness ==
    /\ pc = "dispatch"
    /\ idx = 2
    /\ Len(GetActions(decision).items) = 2
    /\ GetActions(decision).items[1].action = "click"
    /\ exec.unmatched
    /\ exec.result.ops = <<random_delay(80, 160)>>

----------------------------------------------------------------------------
(* Properties of _execute_action *)

\* C5: the element acted on is the first element of the first non-empty result in
\* the order label, placeholder, button role, text; a target matched by a label and
\* by text resolves to the label match; no element is resolved exactly when all
\* four strategies match nothing.
C5_ResolutionOrder ==
    LET expected ==
            IF found["get_by_label"] # <<>> THEN found["get_by_label"][1]
            ELSE IF found["get_by_placeholder"] # <<>> THEN found["get_by_placeholder"][1]
            ELSE IF found["get_by_role_button"] # <<>> THEN found["get_by_role_button"][1]
            ELSE IF found["get_by_text"] # <<>> THEN found["get_by_text"][1]
            ELSE NoElement
        targeted == action.type = "object"
                    /\ action.action \in {"click", "hover", "type", "upload"}
    IN  pc = "executed" /\ targeted =>
            /\ exec.result.element = expected
            /\ (exec.result.element = NoElement <=>
                   \A s \in StrategyNames : found[s] = <<>>)
            /\ \A i \in 1..Len(exec.result.ops) :
                  exec.result.ops[i].op \in {"hover", "click", "set_input_files"}
                      => exec.result.ops[i].element = expected
            /\ (expected # NoElement =>
                   \E i \in 1..Len(exec.result.ops) : exec.result.ops[i].element = expected)

\* a click on a target matched by a label and, on another element, by text
C5_Witness ==
    /\ pc = "executed"
    /\ action.action = "click"
    /\ found["get_by_label"] = <<"e2", "e1">>
    /\ found["get_by_text"] = <<"e1">>
    /\ exec.result.element = "e2"

----------------------------------------------------------------------------
(* Properties of _generate *)

\* C6: one _generate call sends at most two requests; the second is sent only
\* after the first failed and a switch succeeded, and it goes to an identifier
\* different from the one whose request just failed.
C6_RetryOnDifferentModel ==
    /\ Len(gen.requests) <= 2
    /\ (Len(gen.requests) = 2 =>
           /\ gen.answered # 1
           /\ gen.i \in 1..Len(gen.ordered)
           /\ gen.requests[2] = gen.ordered[gen.i]
           /\ gen.requests[2] # gen.requests[1])

\* C7 as stated: a finished call raised exactly when the primary request failed and
\* either discovery left no identifier to switch to or the retried request failed.
C7_UnavailableIffNoCandidateOrRetryFailed ==
    gen.pc \in {"returned", "raised"} =>
        (gen.pc = "raised" <=>
            /\ gen.answered # 1
            /\ \/ gen.ordered = <<>>
               \/ (Len(gen.requests) = 2 /\ gen.answered = 0))

\* C7, amended: a finished call raised exactly when the primary request failed and
\* either no candidate could be switched to (none discovered besides the active
\* one, the listing raised, or building the model raised for every candidate) or
\* the retried request failed; otherwise it returns the text of the first request
\* that answered.
C7_UnavailableIffNoSwitchOrRetryFailed ==
    /\ (gen.pc \in {"returned", "raised"} =>
           /\ (gen.pc = "raised" <=>
                  /\ gen.answered # 1
                  /\ \/ gen.ctorFailed = gen.ordered
                     \/ (Len(gen.requests) = 2 /\ gen.answered = 0))
           /\ (gen.pc = "returned" =>
                  /\ gen.answered \in {1, 2}
                  /\ gen.answered = Len(gen.requests)))
    /\ (gen.pc \in {"switch", "retry", "returned", "raised"} =>
           /\ (gen.listingRaised => gen.ordered = <<>>)
           /\ ((\A k \in 1..Len(gen.available) : gen.available[k] = gen.before.active)
                  => gen.ordered = <<>>))

\* a call that raised after one request although a candidate was discovered
C7_Witness ==
    /\ gen.pc = "raised"
    /\ Len(gen.requests) = 1
    /\ gen.ordered # <<>>
    /\ gen.ctorFailed = gen.ordered

----------------------------------------------------------------------------
(* Properties of the decision step of execute_llm_actions *)

\* C8 as stated: a _generate failure during a cycle's decision step ends
\* execute_llm_actions with that failure.
C8_UnavailablePropagates ==
    (\E k \in 1..Len(events) : events[k].e = "decision" /\ events[k].note = "Exception")
        => /\ pc = "raised"
           /\ outcome \in {"LLM request failed",
                           "LLM request failed and no fallback model could be selected."}

\* C8, amended: a _generate failure during a cycle's decision step never ends
\* execute_llm_actions; the cycle goes on with the safe decision (one wait, risk
\* error), dispatches that wait and the loop goes on to the next cycle.
C8_UnavailableRecovered ==
    /\ [](/\ outcome \notin {"LLM request failed",
                             "LLM request failed and no fallback model could be selected."}
          /\ (\E k \in 1..Len(events) :
                 events[k].e = "decision" /\ events[k].note = "Exception")
             => /\ decision = FallbackDecision
                /\ pc \in {"read", "dispatch"}
                /\ outcome = ""
                /\ (idx = 2 => exec.result
                                 = Result("", FALSE, NoElement, <<random_delay(100, 300)>>)))
    /\ [][pc = "analyze" /\ gen.pc = "raised" =>
             /\ pc' = "read"
             /\ decision' = FallbackDecision
             /\ cycle' = cycle]_vars
    /\ [][(\E k \in 1..Len(events) :
              events[k].e = "decision" /\ events[k].note = "Exception")
          /\ cycle' # cycle =>
             /\ cycle' = cycle + 1
             /\ pc' = "capture"
             /\ events[Len(events)] = Event("execute_action", 1, "")]_vars

\* the second cycle, its _generate call failed, after the safe wait was dispatched
C8_Witness ==
    /\ \E k \in 1..Len(events) : events[k].e = "decision" /\ events[k].note = "Exception"
    /\ cycle = 1
    /\ pc = "dispatch"
    /\ idx = 2
    /\ exec.result.ops = <<random_delay(100, 300)>>

\* C9: a text that cannot be coerced into a decision (not JSON, JSON that is not an
\* object, or actions that are not action objects) leaves the cycle with the safe
\* decision, and no parse-level error ends execute_llm_actions.
C9_ParseFailuresRecovered ==
    /\ outcome \notin {"AttributeError", "TypeError"}
    /\ (pc \in {"read", "dispatch", "returned"} =>
           /\ decision.type = "object"
           /\ decision.actions.type # "null"
           /\ \A k \in 1..Len(decision.actions.items) :
                 decision.actions.items[k].type = "object")

\* C10 as stated: no cycle ends without having dispatched at least one action.
C10_EveryCycleDispatches ==
    [][cycle' = cycle + 1 =>
          \E k \in 1..Len(events) : events[k].e = "execute_action"]_vars

\* C10, amended: a decision that is an object with an empty or absent actions list
\* is kept as the model gave it; its cycle dispatches no action and still uses up
\* one cycle of the budget.
C10_EmptyActionsConsumeCycle ==
    /\ [](LET empty == /\ decision.type = "object"
                       /\ \/ decision.actions.type = "missing"
                          \/ (decision.actions.type = "array" /\ decision.actions.items = <<>>)
          IN  pc = "dispatch" /\ empty =>
                /\ decision # FallbackDecision
                /\ idx = 1
                /\ \A k \in 1..Len(events) : events[k].e # "execute_action"
                /\ \E k \in 1..Len(events) :
                      events[k].e = "decision" /\ events[k].note = "model")
    /\ [][LET empty == /\ decision.type = "object"
                       /\ \/ decision.actions.type = "missing"
                          \/ (decision.actions.type = "array" /\ decision.actions.items = <<>>)
          IN  pc = "dispatch" /\ empty =>
                /\ pc' = "capture"
                /\ cycle' = cycle + 1
                /\ nDispatched' = nDispatched
                /\ nSnapshots' = nSnapshots]_vars

\* a budget of two cycles used up without a single dispatch
C10_Witness ==
    /\ pc = "raised"
    /\ outcome = "LLM action loop exhausted before completion."
    /\ max_cycles = 2
    /\ nSnapshots = 2
    /\ nDispatched = 0

----------------------------------------------------------------------------
(* Properties of interpret_user_command *)

\* C11: interpret_user_command always returns: after a failed _generate, a reply
\* that is not JSON or JSON that is not an object it returns what
\* _fallback_command_parse makes of the same command; after a reply that is a JSON
\* object it returns that object and nothing of the local parse.
C11_InterpretFallsBackOrReturnsObject ==
    /\ [][pc = "interpret" /\ gen.pc \in {"returned", "raised"} =>
             pc' = "interpreted" /\ outcome' = ""]_vars
    /\ [](pc = "interpreted" =>
             IF gen.pc = "returned" /\ modelReply.type = "object"
             THEN /\ workflow = modelReply
                  /\ events = <<Event("workflow", 0, "model")>>
             ELSE /\ workflow = fallback_command_parse(cmd)
                  /\ events[1].note \in {"RuntimeError", "JSONDecodeError", "ValueError"})

\* the retried request answered with a JSON array: the command is parsed locally
C11_Witness ==
    /\ pc = "interpreted"
    /\ gen.pc = "returned"
    /\ Len(gen.requests) = 2
    /\ modelReply = Reply("array")
    /\ cmd = <<"U", "p", "d", "a", "t", "e", " ", "p", "r", "i", "c", "e", " ", "o", "f", " ", "S", "K", "U", "1", "2", "3", " ", "t", "o", " ", "7", "9", "9">>
    /\ workflow.fields["notes"] = Str(<<FallbackNotes>>)
    /\ workflow.fields["updates"] = Object(Put(EmptyDict, "price", Number(799)))

\* C12 as stated: every descriptor interpret_user_command returns has `updates` and
\* `filters`, and both are mappings.
C12_MappingsAlwaysPresent ==
    pc = "interpreted" =>
        \A key \in {"updates", "filters"} :
            /\ key \in DOMAIN workflow.fields
            /\ workflow.fields[key].type = "object"

\* C12, amended: a descriptor of the local parse has `updates` and `filters`, both
\* mappings, empty when nothing was extracted; a descriptor of the model is the
\* object as the model gave it, `updates` and `filters` absent or null included.
C12_MappingsPresentOnFallbackPath ==
    pc = "interpreted" =>
        IF events[1].note = "model"
        THEN \A key \in {"updates", "filters"} :
                /\ key \in DOMAIN workflow.fields <=> key \in DOMAIN modelReply.fields
                /\ key \in DOMAIN workflow.fields =>
                      workflow.fields[key] = modelReply.fields[key]
        ELSE \A key \in {"updates", "filters"} :
                /\ key \in DOMAIN workflow.fields
                /\ workflow.fields[key].type = "object"
                /\ (cmd = <<"a", "l", "l">> => workflow.fields[key] = Object(EmptyDict))

\* the model answered with an object without `updates` and with `filters` null
C12_Witness ==
    /\ pc = "interpreted"
    /\ events[1].note = "model"
    /\ "updates" \notin DOMAIN workflow.fields
    /\ "filters" \in DOMAIN workflow.fields
    /\ workflow.fields["filters"] = Null

----------------------------------------------------------------------------
(* Properties of _extract_json_payload *)

\* C13: extracting from an extracted payload gives the payload back, whatever the
\* text was: clean JSON, fenced JSON, JSON inside prose, or no bracket at all.
C13_ExtractIdempotent ==
    pc = "extracted twice" => payloads[2] = payloads[1]

\* a fenced object after prose: the payload is the object, and stays the object
C13_Witness ==
    /\ pc = "extracted twice"
    /\ txt = <<"j", "s", "o", "n", Backtick, Backtick, Backtick, "{", "}", Backtick, Backtick, Backtick>>
    /\ payloads = << <<"{", "}">>, <<"{", "}">> >>

\* C18: for a trimmed text that does not start with { or [ and holds no fenced
\* block, the payload runs from the first { or [ to the last closer of the same
\* kind at or after it; without such a closer it is the trimmed text.
C18_EndsAtMatchingCloser ==
    pc \in {"extracted", "extracted twice"} =>
        LET stripped == strip(txt)
            opens  == {i \in 1..Len(stripped) : stripped[i] \in {"{", "["}}
            start  == Min(opens)
            closer == IF stripped[start] = "{" THEN "}" ELSE "]"
            closes == {e \in start..Len(stripped) : stripped[e] = closer}
        IN  (/\ opens # {}
             /\ stripped[1] \notin {"{", "["}
             /\ ~FencedSearch(stripped).matched)
            => payloads[1] = IF closes = {} THEN stripped
                             ELSE SubSeq(stripped, start, Max(closes))

----------------------------------------------------------------------------
(* Properties of _fallback_command_parse *)

\* C14: "Update price of SKU123 to 799" parses to edit_listing, sku SKU123, updates
\* {price: 799} and no filters; and a command that holds the identifier SKU123
\* parses to the sku SKU123, the whole identifier.
C14_SkuIsWholeIdentifier ==
    pc = "parsed" =>
        /\ (cmd = <<"U", "p", "d", "a", "t", "e", " ", "p", "r", "i", "c", "e", " ", "o", "f", " ", "S", "K", "U", "1", "2", "3", " ", "t", "o", " ", "7", "9", "9">> =>
               workflow = Workflow("edit_listing", Put(EmptyDict, "price", Number(799)),
                                   <<"S", "K", "U", "1", "2", "3">>, EmptyDict, FallbackNotes))
        /\ (Contains(cmd, <<"S", "K", "U", "1", "2", "3">>) => workflow.fields["sku"] = Str(<<"S", "K", "U", "1", "2", "3">>))

\* C15: the operation is new_listing when the command holds `new` and `list`
\* (whatever else it holds); otherwise bulk_update when it holds `bulk`, or `all`
\* with a space before or after it; otherwise edit_listing.
C15_OperationClassification ==
    pc = "parsed" =>
        LET low == lower(cmd)
            newListing == Contains(low, <<"n", "e", "w">>) /\ Contains(low, <<"l", "i", "s", "t">>)
            allScope == \E i \in 1..Len(low) :
                            /\ MatchAt(low, <<"a", "l", "l">>, i)
                            /\ \/ (i > 1 /\ low[i - 1] = " ")
                               \/ (i + 3 <= Len(low) /\ low[i + 3] = " ")
            bulk == Contains(low, <<"b", "u", "l", "k">>) \/ allScope
            operation == workflow.fields["operation"]
        IN  /\ (newListing => operation = Str(<<"new_listing">>))
            /\ (~newListing /\ bulk => operation = Str(<<"bulk_update">>))
            /\ (~newListing /\ ~bulk => operation = Str(<<"edit_listing">>))
            /\ (cmd = <<"L", "i", "s", "t", " ", "n", "e", "w", " ", "p", "r", "o", "d", "u", "c", "t", " ", "f", "r", "o", "m", " ", "c", "a", "t", "a", "l", "o", "g">> => operation = Str(<<"new_listing">>))

\* a command for which the new-listing and the bulk conditions both hold
C15_Witness ==
    /\ pc = "parsed"
    /\ cmd = <<"b", "u", "l", "k", " ", "L", "i", "s", "t", " ", "n", "e", "w", " ", "p", "r", "o", "d", "u", "c", "t", " ", "f", "r", "o", "m", " ", "c", "a", "t", "a", "l", "o", "g", " ", "a", "l", "l">>
    /\ workflow.fields["operation"] = Str(<<"new_listing">>)

\* C16 as stated: "Update price of <words> to <integer literal>" parses to the
\* price as an integer and to the category <words>; a category is set only in a
\* command that mentions a price or an update.
C16_PriceAndCategoryAsWritten ==
    pc = "parsed" =>
        LET updates == workflow.fields["updates"].fields
            filters == workflow.fields["filters"].fields
        IN  /\ \A c \in PriceCommands :
                  cmd = c.command =>
                      /\ "price" \in DOMAIN updates
                      /\ updates["price"].type = "int"
                      /\ updates["price"].int = (IF c.literal = <<"7", "9", "9">> THEN 799 ELSE 999)
                      /\ "category" \in DOMAIN filters
                      /\ filters["category"] = Str(c.words)
            /\ ("category" \in DOMAIN filters =>
                   \E token \in { <<"p", "r", "i", "c", "e">>, <<"u", "p", "d", "a", "t", "e">>, <<"c", "h", "a", "n", "g", "e">> } :
                       Contains(lower(cmd), token))

\* C16, amended: "Update price of <words> to <integer literal>" parses to the
\* price as an integer and to the category <words> in lower case; a category is
\* set only in a command that mentions a price or an update.
C16_PriceAndLowerCaseCategory ==
    pc = "parsed" =>
        LET updates == workflow.fields["updates"].fields
            filters == workflow.fields["filters"].fields
        IN  /\ \A c \in PriceCommands :
                  cmd = c.command =>
                      /\ "price" \in DOMAIN updates
                      /\ updates["price"].type = "int"
                      /\ updates["price"].int = (IF c.literal = <<"7", "9", "9">> THEN 799 ELSE 999)
                      /\ "category" \in DOMAIN filters
                      /\ filters["category"] = Str(lower(c.words))
            /\ ("category" \in DOMAIN filters =>
                   \E token \in { <<"p", "r", "i", "c", "e">>, <<"u", "p", "d", "a", "t", "e">>, <<"c", "h", "a", "n", "g", "e">> } :
                       Contains(lower(cmd), token))

\* words with a capital letter: the category is their lower case
C16_Witness ==
    /\ pc = "parsed"
    /\ cmd = <<"U", "p", "d", "a", "t", "e", " ", "p", "r", "i", "c", "e", " ", "o", "f", " ", "r", "i", "n", "g", "s", " ", "i", "n", " ", "G", "o", "l", "d", " ", "t", "o", " ", "9", "9", "9">>
    /\ workflow.fields["updates"] = Object(Put(EmptyDict, "price", Number(999)))
    /\ workflow.fields["filters"] = Object(Put(EmptyDict, "category", Str(<<"r", "i", "n", "g", "s", " ", "i", "n", " ", "g", "o", "l", "d">>)))

\* C17: with two or more quoted spans and a title phrase, filters.title is the
\* first span and updates.title the last; with one span and no title phrase,
\* filters.title is the span; otherwise filters.title is not set and updates.title
\* is what the title phrase alone gave, if there is one.
C17_QuotedSpans ==
    pc = "parsed" =>
        LET quotes == {i \in 1..Len(cmd) : cmd[i] = Quote}
            n == Cardinality(quotes) \div 2
            nth(k) == CHOOSE i \in quotes : Cardinality({j \in quotes : j < i}) = k - 1
            span(k) == SubSeq(cmd, nth(2 * k - 1) + 1, nth(2 * k) - 1)
            phrase == NameSearch(cmd)
            updates == workflow.fields["updates"].fields
            filters == workflow.fields["filters"].fields
        IN  IF n >= 2 /\ phrase.matched
            THEN /\ "title" \in DOMAIN filters /\ filters["title"] = Str(span(1))
                 /\ "title" \in DOMAIN updates /\ updates["title"] = Str(span(n))
            ELSE IF n = 1 /\ ~phrase.matched
            THEN /\ "title" \in DOMAIN filters /\ filters["title"] = Str(span(1))
                 /\ "title" \notin DOMAIN updates
            ELSE /\ "title" \notin DOMAIN filters
                 /\ "title" \in DOMAIN updates <=> phrase.matched
                 /\ phrase.matched =>
                       updates["title"] = Str(StripChars(phrase.group, {Quote}))

\* the documented example: the first span locates the row, the last is the title
C17_Witness ==
    /\ pc = "parsed"
    /\ cmd = <<"C", "h", "a", "n", "g", "e", " ", "t", "i", "t", "l", "e", " ", "\"", "O", "l", "d", " ", "N", "a", "m", "e", "\"", " ", "t", "o", " ", "\"", "N", "e", "w", " ", "N", "a", "m", "e", "\"">>
    /\ workflow.fields["filters"] = Object(Put(EmptyDict, "title", Str(<<"O", "l", "d", " ", "N", "a", "m", "e">>)))
    /\ workflow.fields["updates"] = Object(Put(EmptyDict, "title", Str(<<"N", "e", "w", " ", "N", "a", "m", "e">>)))

----------------------------------------------------------------------------
(* Further properties of _execute_action and _generate *)

\* C19: a `press` sends its key (value, or Enter for an empty value) exactly once
\* and raises nothing, whether or not the target matches an element of the page.
C19_PressSkipsResolution ==
    pc = "executed" /\ action.type = "object" /\ action.action = "press" =>
        LET presses == SelectSeq(exec.result.ops, LAMBDA o : o.op = "keyboard.press")
        IN  /\ exec.result.raised = ""
            /\ Len(presses) = 1
            /\ presses[1].arg = (IF action.value = <<>> THEN Enter ELSE action.value)

\* C20: the model switched to after a failed primary request is reported by
\* discovery, and is the first known candidate, in the order of MODEL_CANDIDATES,
\* that is discovered and not yet tried, or, when there is none, the first other
\* discovered identifier not yet tried; tried are the model of the failed request
\* and the candidates that could not be built.
C20_SwitchesToFirstUntried ==
    gen.pc = "retry" \/ Len(gen.requests) = 2 =>
        LET selected == gen.ordered[gen.i]
            tried == {gen.requests[1]} \cup {gen.ctorFailed[k] : k \in 1..Len(gen.ctorFailed)}
            known == {k \in 1..Len(MODEL_CANDIDATES) :
                         /\ InSeq(MODEL_CANDIDATES[k], gen.available)
                         /\ MODEL_CANDIDATES[k] \notin tried}
            other == {k \in 1..Len(gen.available) : gen.available[k] \notin tried}
        IN  /\ model = selected
            /\ InSeq(selected, gen.available)
            /\ selected \notin tried
            /\ IF known # {} THEN selected = MODEL_CANDIDATES[Min(known)]
               ELSE other # {} /\ selected = gen.available[Min(other)]

\* C21: over a sequence of _generate calls on one engine, _active_model_name
\* changes only inside a call whose primary request failed, and a call whose
\* primary request answered leaves the name and the model as they were; the model
\* changes only when a switch succeeds, to the candidate switched to, and every
\* call sends its primary request to the model the last switch left (the default
\* model while there was none): nothing resets it between calls.
C21_ActiveModelPersists ==
    /\ [](/\ (gen.answered = 1 =>
                 /\ activeModelName = gen.before.active
                 /\ model = gen.before.model)
          /\ (Len(gen.requests) >= 1 => gen.requests[1] = gen.before.model)
          /\ (calls = 1 /\ gen.pc = "primary" =>
                 model = DEFAULT_MODEL /\ activeModelName = DEFAULT_MODEL))
    /\ [][/\ (activeModelName' # activeModelName =>
                 /\ gen.pc = "switch"
                 /\ gen.requests = <<gen.before.model>>
                 /\ gen.answered = 0)
          /\ (model' # model =>
                 /\ gen.pc = "switch"
                 /\ gen'.pc = "retry"
                 /\ model' = gen.ordered[gen.i]
                 /\ activeModelName' = model')
          /\ (calls' # calls =>
                 /\ gen'.before = [active |-> activeModelName, model |-> model]
                 /\ activeModelName' = activeModelName
                 /\ model' = model)]_vars

\* the second call, after the first one switched: its primary request went to the
\* model switched to and answered
C21_Witness ==
    /\ calls = 2
    /\ gen.pc = "returned"
    /\ gen.answered = 1
    /\ gen.requests = <<"gemini-2.5-flash-lite">>
    /\ model = "gemini-2.5-flash-lite"
    /\ activeModelName = "gemini-2.5-flash-lite"

----------------------------------------------------------------------------
(* Further properties of execute_llm_actions *)

\* C22: within a cycle the actions of the decision are dispatched in the order
\* of the list, each at most once: the k-th dispatch of the cycle is that of the
\* k-th item, whether or not the target of an earlier one was resolved, and no
\* item listed after a dispatched `done` is dispatched.
C22_DispatchInListedOrder ==
    /\ [](LET dispatched == SelectSeq(events, LAMBDA ev : ev.e = "execute_action")
              items == GetActions(decision).items
          IN  dispatched # <<>> =>
                /\ Len(dispatched) <= Len(items)
                /\ \A k \in 1..Len(dispatched) : dispatched[k].i = k
                /\ \A k, j \in 1..Len(dispatched) :
                      k # j => dispatched[k].i # dispatched[j].i
                /\ \A k \in 1..(Len(dispatched) - 1) :
                      ~(items[k].type = "object" /\ items[k].action = "done"))
    /\ [][LET dispatched == SelectSeq(events, LAMBDA ev : ev.e = "execute_action")
          IN  /\ (nDispatched' # nDispatched =>
                     /\ nDispatched' = nDispatched + 1
                     /\ cycle' = cycle
                     /\ events' = Append(events,
                                         Event("execute_action", Len(dispatched) + 1, "")))
              /\ (pc = "dispatch" /\ dispatched # <<>> /\ exec.unmatched
                     /\ nDispatched' # nDispatched =>
                        events'[Len(events')].i > dispatched[Len(dispatched)].i)]_vars

\* an upload whose target no strategy matched, then the next item, and no more
C22_Witness ==
    /\ pc = "dispatch"
    /\ idx = 3
    /\ Len(GetActions(decision).items) = 2
    /\ GetActions(decision).items[1].action = "upload"
    /\ GetActions(decision).items[2].action = "type"
    /\ exec.unmatched
    /\ SelectSeq(events, LAMBDA ev : ev.e = "execute_action")
          = <<Event("execute_action", 1, ""), Event("execute_action", 2, "")>>

\* C23 as stated: every cycle takes exactly one screenshot, before the decision
\* is requested, and sends exactly one request to the provider of the model.
C23_OneSnapshotOneRequest ==
    LET count(e) == Cardinality({k \in 1..Len(events) : events[k].e = e})
    IN  /\ nSnapshots = (IF events = <<>> THEN cycle ELSE cycle + 1)
        /\ (events # <<>> => events[1].e = "screenshot" /\ count("screenshot") = 1)
        /\ Len(gen.requests) <= 1
        /\ (count("decision") = 1 => count("generate_content") = 1)

\* C23, amended: every cycle takes exactly one screenshot, before the decision is
\* requested, and makes exactly one _generate call, started after the screenshot;
\* that call sends one request to the provider, or two when its first request
\* failed and a switch succeeded, all of them before the decision is read.
C23_OneSnapshotOneGenerate ==
    /\ [](LET count(e) == Cardinality({k \in 1..Len(events) : events[k].e = e})
              at(e) == CHOOSE k \in 1..Len(events) : events[k].e = e
          IN  /\ nSnapshots = (IF events = <<>> THEN cycle ELSE cycle + 1)
              /\ (events # <<>> =>
                     /\ events[1] = Event("screenshot", cycle, "")
                     /\ count("screenshot") = 1)
              /\ (gen.pc # "idle" => pc = "analyze" /\ count("decision") = 0)
              /\ Len(gen.requests) <= 2
              /\ (Len(gen.requests) = 2 =>
                     gen.answered # 1 /\ model = gen.ordered[gen.i])
              /\ count("decision") <= 1
              /\ (pc \in {"read", "dispatch", "returned"} => count("decision") = 1)
              /\ (count("decision") = 1 =>
                     /\ count("generate_content") \in {1, 2}
                     /\ \A k \in 1..Len(events) :
                           events[k].e = "generate_content" =>
                               1 < k /\ k < at("decision")))
    /\ [][/\ (gen.pc = "idle" /\ gen'.pc # "idle" =>
                 /\ pc = "analyze"
                 /\ events = <<Event("screenshot", cycle, "")>>)
          /\ (cycle' # cycle =>
                 Cardinality({k \in 1..Len(events) : events[k].e = "decision"}) = 1)]_vars

\* a cycle whose first request failed: screenshot, two requests, decision
C23_Witness ==
    /\ pc = "read"
    /\ cycle = 1
    /\ nSnapshots = 2
    /\ Len(events) = 4
    /\ events[1] = Event("screenshot", 1, "")
    /\ events[2] = Event("generate_content", 1, "gemini-2.5-flash")
    /\ events[3] = Event("generate_content", 2, "gemini-2.5-flash-lite")
    /\ events[4].e = "decision"

----------------------------------------------------------------------------
(* Further properties of _execute_action *)

\* C24: _execute_action on an action object returns True exactly when the kind is
\* `done`; for `done` it does nothing at all and for `wait`, or no kind, it only
\* pauses 1-3 seconds: no element is looked up or touched, whatever the page
\* holds; every other kind, one the schema does not know included, returns False.
C24_TerminalIffDone ==
    pc = "executed" /\ action.type = "object" =>
        LET kind == action.action
            r == exec.result
        IN  /\ r.raised = ""
            /\ r.terminal <=> kind = "done"
            /\ (kind = "done" =>
                   /\ r = Result("", TRUE, NoElement, <<>>)
                   /\ \A page \in Pages : execute_action(action, page) = r)
            /\ (kind \in {"wait", MissingKey} =>
                   /\ r = Result("", FALSE, NoElement, <<random_delay(100, 300)>>)
                   /\ \A page \in Pages : execute_action(action, page) = r)
            /\ (kind \in Kinds \ {"done"} => ~r.terminal)

\* an action without a kind on a page where a label matches: only the pause
C24_Witness ==
    /\ pc = "executed"
    /\ action.type = "object"
    /\ action.action = MissingKey
    /\ found["get_by_label"] = <<"e1">>
    /\ exec.result = Result("", FALSE, NoElement, <<random_delay(100, 300)>>)

----------------------------------------------------------------------------
(* The active identifier after a failed _generate call *)

\* C26: a _generate call that raises because the retried request failed leaves
\* the switched candidate, which is not the identifier the call began with, as
\* the active identifier; a call that raises because no candidate could be
\* selected leaves the active identifier as it was when the call began.
C26_NoRollbackOnFailure ==
    gen.pc = "raised" =>
        IF gen.error = "LLM request failed"
        THEN /\ Len(gen.requests) = 2
             /\ activeModelName = gen.requests[2]
             /\ activeModelName # gen.before.active
        ELSE /\ gen.error = "LLM request failed and no fallback model could be selected."
             /\ activeModelName = gen.before.active

----------------------------------------------------------------------------
(* Termination of execute_llm_actions *)

\* C25: when every call returns, execute_llm_actions ends, by returning or by
\* raising, and does nothing after that; it starts at most max_cycles cycles and
\* takes at most max_cycles screenshots, whatever the decisions are; with
\* max_cycles = 0 it raises the exhaustion error without a screenshot, a
\* _generate call or a dispatch.
C25_RunTerminates ==
    /\ <>(pc \in {"returned", "raised"})
    /\ [](/\ nSnapshots <= max_cycles
          /\ cycle <= max_cycles
          /\ (pc \in {"analyze", "read", "dispatch"} => cycle < max_cycles)
          /\ (max_cycles = 0 =>
                 /\ pc \in {"capture", "raised"}
                 /\ (pc = "raised" =>
                        outcome = "LLM action loop exhausted before completion.")
                 /\ nSnapshots = 0
                 /\ nDispatched = 0
                 /\ gen = NoGen
                 /\ events = <<>>))
    /\ [][(pc \in {"returned", "raised"}) => (vars' = vars)]_vars

\* a budget of no cycle: the error, and nothing was done
C25_Witness ==
    /\ max_cycles = 0
    /\ pc = "raised"
    /\ outcome = "LLM action loop exhausted before completion."
    /\ nSnapshots = 0
    /\ gen = NoGen

----------------------------------------------------------------------------
(* Properties of main.run and of the platform calls *)

\* C27: main.run works through the tasks one at a time and in list order; a task
\* whose platform call raises (the exhaustion error of execute_llm_actions
\* included) gets exactly one `failed` task_result and the tasks after it are
\* still processed, a task whose platform call returns gets exactly one `success`
\* task_result, and once browser.start has returned browser.stop is called
\* exactly once on every path, also when login fails before any task.
C27_TasksOneAtATime ==
    LET log == run.log
        results == {i \in DOMAIN log : log[i].e = "task_result"}
        resultsOf(t) == {i \in results : log[i].t = t}
        callsOf(t) == {i \in DOMAIN log : log[i].t = t /\ log[i].e # "task_result"}
        loggedIn == \E i \in DOMAIN log : log[i].e = "login" /\ log[i].status = "success"
    IN  /\ \A i, j \in DOMAIN log : i < j => log[i].t <= log[j].t
        /\ \A i \in results : \A j \in DOMAIN log : j > i => log[j].t > log[i].t
        /\ \A i \in results : log[i].t \in 1..run.t
        /\ \A t \in 1..run.nTasks :
              Cardinality(resultsOf(t)) =
                  IF t < run.t \/ (t = run.t /\ pc # "call") THEN 1 ELSE 0
        /\ \A i \in results :
              /\ log[i].status \in {"success", "failed"}
              /\ log[i].status = "success" <=>
                    /\ run.operation \in {"new_listing", "edit_listing", "bulk_update"}
                    /\ \A j \in callsOf(log[i].t) : log[j].status = "success"
              /\ log[i].status = "failed" <=>
                    \/ run.operation \notin {"new_listing", "edit_listing", "bulk_update"}
                    \/ \E j \in callsOf(log[i].t) : log[j].status # "success"
        /\ \A t \in 1..run.nTasks : callsOf(t) # {} => loggedIn
        /\ run.stopped <= run.started
        /\ run.started <= 1
        /\ (pc \in {"login", "task", "call", "finally"} => run.started = 1 /\ run.stopped = 0)
        /\ (pc \in {"returned", "raised"} =>
              /\ run.stopped = run.started
              /\ (loggedIn =>
                    /\ run.t = run.nTasks
                    /\ \A t \in 1..run.nTasks : Cardinality(resultsOf(t)) = 1)
              /\ (~loggedIn => run.t = 0 /\ results = {} /\ pc = "raised"))

\* two new listings: the first one exhausted its budget while uploading and was
\* recorded as failed, the second one went through, and the browser was stopped
C27_Witness ==
    /\ pc = "returned"
    /\ run.operation = "new_listing"
    /\ run.nTasks = 2
    /\ run.started = 1
    /\ run.stopped = 1
    /\ run.image_paths = << <<1>>, <<>> >>
    /\ run.log = << RunEvent("login", 0, 0, "success"),
                    RunEvent("create_listing", 1, 0, "success"),
                    RunEvent("upload_images", 1, 1,
                             "LLM action loop exhausted before completion."),
                    RunEvent("task_result", 1, 0, "failed"),
                    RunEvent("create_listing", 2, 0, "success"),
                    RunEvent("save_listing", 2, 0, "success"),
                    RunEvent("task_result", 2, 0, "success") >>

\* C28: the calls of create_listing for one task are, in this order, the
\* form-filling call, one upload call per image path in list order, and the save
\* call; a call that raises (the exhaustion error included) is the last call made
\* for the task, so that save is never attempted after a failed fill or upload;
\* the calls of edit_listing are the edit call and then the save call, the save
\* call only after the edit call returned.
C28_StagesInOrder ==
    \A k \in 1..run.t :
        LET log == run.log
            image_paths == run.image_paths[k]
            made == {i \in DOMAIN log : log[i].t = k /\ log[i].e # "task_result"}
            n == Cardinality(made)
            first == IF made = {} THEN 0 ELSE CHOOSE i \in made : \A j \in made : i <= j
            stages == IF run.operation = "new_listing"
                      THEN Len(image_paths) + 2
                      ELSE IF run.operation \in {"edit_listing", "bulk_update"} THEN 2
                      ELSE 0
        IN  /\ made = IF n = 0 THEN {} ELSE first..(first + n - 1)
            /\ n <= stages
            /\ \A m \in 1..n :
                  LET call == log[first + m - 1]
                  IN  /\ IF run.operation = "new_listing"
                         THEN IF m = 1
                              THEN call.e = "create_listing" /\ call.image = 0
                              ELSE IF m <= Len(image_paths) + 1
                              THEN call.e = "upload_images" /\ call.image = image_paths[m - 1]
                              ELSE call.e = "save_listing" /\ call.image = 0
                         ELSE IF m = 1
                              THEN call.e = "edit_listing" /\ call.image = 0
                              ELSE call.e = "save_listing" /\ call.image = 0
                      /\ (m < n => call.status = "success")
                      /\ (call.status # "success" =>
                             /\ first + m \in DOMAIN log
                             /\ log[first + m] = RunEvent("task_result", k, 0, "failed"))
            /\ (\E i \in DOMAIN log : log[i] = RunEvent("task_result", k, 0, "success"))
                  => n = stages /\ n > 0
            /\ (n > 0 /\ n < stages /\ log[first + n - 1].status = "success")
                  => pc = "call" /\ k = run.t /\ Len(run.todo) = stages - n

\* a new listing with two images: the form was filled, the first image uploaded,
\* the second upload exhausted its budget, and no save call was made
C28_Witness ==
    /\ pc = "task"
    /\ run.operation = "new_listing"
    /\ run.t = 1
    /\ run.image_paths[1] = <<1, 2>>
    /\ run.log = << RunEvent("login", 0, 0, "success"),
                    RunEvent("create_listing", 1, 0, "success"),
                    RunEvent("upload_images", 1, 1, "success"),
                    RunEvent("upload_images", 1, 2,
                             "LLM action loop exhausted before completion."),
                    RunEvent("task_result", 1, 0, "failed") >>

====
